---- MODULE Spec2Model ----
(***************************************************************************)
(* Model of the persistence core of mygit: the object codec                *)
(* (Blob / Tree / Commit), the content-addressable object store, the        *)
(* binary staging-index codec and the tree builder of the commit service.  *)
(*                                                                         *)
(* Buffers are sequences of bytes (0..255).  JavaScript strings are        *)
(* sequences of UTF-16 code units.                                         *)
(***************************************************************************)
EXTENDS Integers, Sequences, FiniteSets, TLC

----------------------------------------------------------------------------
(* Generic sequence helpers (Buffer.subarray, Buffer.concat, indexOf).     *)

Min(a, b) == IF a < b THEN a ELSE b

Max(a, b) == IF a > b THEN a ELSE b

\* s.slice(from, to) with 0-based, end-exclusive offsets, as in JavaScript.
Slice(s, from, to) ==
  LET f == Min(Max(from, 0), Len(s))
      t == Min(Max(to, f), Len(s))
  IN  SubSeq(s, f + 1, t)

\* Buffer.indexOf(value, fromOffset): 0-based offset or -1.
IndexOf(s, v, from) ==
  LET hits == {i \in (from + 1)..Len(s) : s[i] = v}
  IN  IF hits = {} THEN -1 ELSE (CHOOSE i \in hits : \A j \in hits : i <= j) - 1

\* String.startsWith.
StartsWith(s, p) == Len(s) >= Len(p) /\ \A i \in 1..Len(p) : s[i] = p[i]

RECURSIVE ConcatRange(_, _, _)
ConcatRange(list, lo, hi) ==
  IF lo > hi THEN <<>>
  ELSE IF lo = hi THEN list[lo]
  ELSE ConcatRange(list, lo, (lo + hi) \div 2) \o ConcatRange(list, (lo + hi) \div 2 + 1, hi)

\* Buffer.concat(list)
Concat(list) == ConcatRange(list, 1, Len(list))

\* JavaScript string comparison a < b: lexicographic on code units.
StrLess(a, b) ==
  LET differ == {k \in 1..Min(Len(a), Len(b)) : a[k] # b[k]}
  IN  IF differ = {} THEN Len(a) < Len(b)
      ELSE \E k \in differ : (\A j \in differ : k <= j) /\ a[k] < b[k]

\* Array.prototype.sort(compare) for a comparator derived from a strict
\* order less: a stable sort (elements that compare equal keep their order).
SortBy(s, less(_, _)) ==
  LET rank(i) == Cardinality({j \in 1..Len(s) :
                     less(s[j], s[i]) \/ (~less(s[i], s[j]) /\ j < i)}) + 1
  IN  SubSeq([k \in 1..Len(s) |-> s[CHOOSE i \in 1..Len(s) : rank(i) = k]], 1, Len(s))

----------------------------------------------------------------------------
(* Text: ASCII codes used by the formats, decimal and hexadecimal text.    *)

NUL == 0
LF == 10
SP == 32
SLASH == 47

STR_blob == <<98, 108, 111, 98>>
STR_tree == <<116, 114, 101, 101>>
STR_commit == <<99, 111, 109, 109, 105, 116>>
STR_parent == <<112, 97, 114, 101, 110, 116>>
STR_author == <<97, 117, 116, 104, 111, 114>>
STR_committer == <<99, 111, 109, 109, 105, 116, 116, 101, 114>>
STR_040000 == <<48, 52, 48, 48, 48, 48>>
STR_100644 == <<49, 48, 48, 54, 52, 52>>
STR_100755 == <<49, 48, 48, 55, 53, 53>>

IsDigit(c) == c >= 48 /\ c <= 57

RECURSIVE NatToString(_)
NatToString(n) ==
  IF n < 10 THEN <<48 + n>> ELSE NatToString(n \div 10) \o <<48 + (n % 10)>>

\* Number.prototype.toString() of an integer.
IntToString(n) == IF n < 0 THEN <<45>> \o NatToString(0 - n) ELSE NatToString(n)

RECURSIVE DigitsValue(_)
DigitsValue(s) ==
  IF s = <<>> THEN 0
  ELSE DigitsValue(SubSeq(s, 1, Len(s) - 1)) * 10 + (s[Len(s)] - 48)

\* String.padStart(2, "0") of a number below 100.
Pad2(n) == IF n < 10 THEN <<48>> \o NatToString(n) ELSE NatToString(n)

HexDigit(n) == IF n < 10 THEN 48 + n ELSE 87 + n

IsHexChar(c) == IsDigit(c) \/ (c >= 97 /\ c <= 102) \/ (c >= 65 /\ c <= 70)

HexValue(c) == IF IsDigit(c) THEN c - 48 ELSE IF c >= 97 THEN c - 87 ELSE c - 55

\* Buffer.toString("hex"): two lowercase hexadecimal digits per byte.
ToHex(bytes) ==
  [i \in 1..(2 * Len(bytes)) |->
     IF i % 2 = 1 THEN HexDigit(bytes[(i + 1) \div 2] \div 16)
     ELSE HexDigit(bytes[i \div 2] % 16)]

\* Buffer.from(str, "hex"): decodes pairs of hex digits and stops at the
\* first pair that is not valid.
FromHex(str) ==
  LET pairs == Len(str) \div 2
      bad == {k \in 1..pairs : ~(IsHexChar(str[2 * k - 1]) /\ IsHexChar(str[2 * k]))}
      n == IF bad = {} THEN pairs
           ELSE (CHOOSE k \in bad : \A j \in bad : k <= j) - 1
  IN  [k \in 1..n |-> HexValue(str[2 * k - 1]) * 16 + HexValue(str[2 * k])]

\* String.toLowerCase on ASCII text.
ToLowerCase(str) == [i \in 1..Len(str) |->
                       IF str[i] >= 65 /\ str[i] <= 90 THEN str[i] + 32 ELSE str[i]]

----------------------------------------------------------------------------
(* UTF-8 (Buffer.from(str, "utf8"), Buffer.toString("utf8")).              *)

Utf8Char(c) ==
  IF c < 128 THEN <<c>>
  ELSE IF c < 2048 THEN <<192 + (c \div 64), 128 + (c % 64)>>
  ELSE <<224 + (c \div 4096), 128 + ((c \div 64) % 64), 128 + (c % 64)>>

IsHighSurrogate(c) == c >= 55296 /\ c <= 56319

IsLowSurrogate(c) == c >= 56320 /\ c <= 57343

\* the four bytes of the code point written as the surrogate pair hi, lo
Utf8Pair(hi, lo) ==
  LET cp == 65536 + (hi - 55296) * 1024 + (lo - 56320)
  IN  <<240 + (cp \div 262144), 128 + ((cp \div 4096) % 64),
        128 + ((cp \div 64) % 64), 128 + (cp % 64)>>

\* the bytes the code unit str[i] contributes: a surrogate pair gives four
\* bytes at its first unit, a surrogate without partner gives U+FFFD
Utf8Unit(str, i) ==
  IF IsHighSurrogate(str[i])
    THEN IF i < Len(str) /\ IsLowSurrogate(str[i + 1])
           THEN Utf8Pair(str[i], str[i + 1]) ELSE <<239, 191, 189>>
  ELSE IF IsLowSurrogate(str[i])
    THEN IF i > 1 /\ IsHighSurrogate(str[i - 1]) THEN <<>> ELSE <<239, 191, 189>>
  ELSE Utf8Char(str[i])

\* Buffer.from(str, "utf8")
Utf8Encode(str) ==
  IF \A i \in 1..Len(str) : str[i] < 128 THEN str
  ELSE Concat([i \in 1..Len(str) |-> Utf8Unit(str, i)])

\* Buffer.byteLength(str, "utf8")
Utf8Length(str) == Len(Utf8Encode(str))

IsCont(b) == b >= 128 /\ b <= 191

IsLead2(b) == b >= 194 /\ b <= 223

\* a three-byte lead and a second byte that may follow it
IsLead3(b1, b2) ==
  b1 >= 224 /\ b1 <= 239 /\ IsCont(b2) /\ (b1 - 224) * 4096 + (b2 - 128) * 64 >= 2048

\* Buffer.toString("utf8") of bytes that start with a byte outside ASCII:
\* every maximal malformed part decodes to U+FFFD.
Utf8DecodeFrom(b) ==
    LET n == Len(b)
        covered(i) ==
          /\ IsCont(b[i])
          /\ \/ i >= 2 /\ (IsLead2(b[i - 1]) \/ IsLead3(b[i - 1], b[i]))
             \/ i >= 3 /\ IsLead3(b[i - 2], b[i - 1])
        starts == {i \in 1..n : ~covered(i)}
        nthStart(nth) == CHOOSE p \in starts :
                           Cardinality({q \in starts : q < p}) = nth - 1
        codeAt(p) ==
          IF b[p] < 128 THEN b[p]
          ELSE IF IsLead2(b[p]) /\ p + 1 <= n /\ IsCont(b[p + 1])
            THEN (b[p] - 192) * 64 + (b[p + 1] - 128)
          ELSE IF p + 2 <= n /\ IsLead3(b[p], b[p + 1]) /\ IsCont(b[p + 2])
            THEN (b[p] - 224) * 4096 + (b[p + 1] - 128) * 64 + (b[p + 2] - 128)
          ELSE 65533
    IN  [k \in 1..Cardinality(starts) |-> codeAt(nthStart(k))]

\* the offset of the first byte of b that is not ASCII
FirstNonAscii(b) == CHOOSE i \in 1..Len(b) : b[i] >= 128 /\ \A j \in 1..(i - 1) : b[j] < 128

\* Buffer.toString("utf8"): the ASCII bytes in front are characters as they
\* are, the rest is decoded.
Utf8Decode(b) ==
  IF \A i \in 1..Len(b) : b[i] < 128 THEN b
  ELSE SubSeq(b, 1, FirstNonAscii(b) - 1) \o Utf8DecodeFrom(SubSeq(b, FirstNonAscii(b), Len(b)))

----------------------------------------------------------------------------
(* crypto.createHash("sha1"): a 20-byte digest of the whole input.  The    *)
(* digest is modelled by two polynomial residues, which keeps the          *)
(* properties the program relies on: it is a function of the bytes alone,  *)
(* and changing one byte of the input changes the digest.                  *)

\* residue in base 257, modulo the prime p, of at most four bytes from s[lo]
HashLeaf(s, lo, n, p) ==
  LET h1 == (s[lo] + 1) % p
      h2 == IF n >= 2 THEN (h1 * 257 + s[lo + 1] + 1) % p ELSE h1
      h3 == IF n >= 3 THEN (h2 * 257 + s[lo + 2] + 1) % p ELSE h2
  IN  IF n >= 4 THEN (h3 * 257 + s[lo + 3] + 1) % p ELSE h3

\* 257^n modulo p, for n in 1..4
HashPower(n, p) ==
  CASE n = 1 -> 257 % p
    [] n = 2 -> (257 * 257) % p
    [] n = 3 -> (((257 * 257) % p) * 257) % p
    [] n = 4 -> (((257 * 257) % p) * ((257 * 257) % p)) % p

\* the residue and power of two adjacent ranges, l before r
HashJoin(l, r, p) == <<(l[1] * r[2] + r[1]) % p, (l[2] * r[2]) % p>>

RECURSIVE HashRange(_, _, _, _)
\* <<residue of s[lo..hi] in base 257, 257^(hi - lo + 1)>> modulo the prime p
HashRange(s, lo, hi, p) ==
  IF lo > hi THEN <<0, 1>>
  ELSE IF hi - lo < 4 THEN <<HashLeaf(s, lo, hi - lo + 1, p), HashPower(hi - lo + 1, p)>>
  ELSE HashJoin(HashRange(s, lo, (lo + hi) \div 2, p),
                HashRange(s, (lo + hi) \div 2 + 1, hi, p), p)

\* twenty bytes spread from the four bytes w
DigestBytes(w) ==
  SubSeq([j \in 1..20 |-> (w[((j - 1) % 4) + 1] + 17 * ((j - 1) \div 4)) % 256], 1, 20)

DigestOf(h1, h2) == DigestBytes(<<h1 \div 256, h1 % 256, h2 \div 256, h2 % 256>>)

Sha1Digest(data) ==
  DigestOf(HashRange(data, 1, Len(data), 46337)[1],
           HashRange(data, 1, Len(data), 46327)[1])

Sha1Hex(data) == ToHex(Sha1Digest(data))

----------------------------------------------------------------------------
(* Object codec: GitObject, Blob, Tree, Commit.                            *)

\* String.split(sep) for a one-character separator.
Split(str, sep) ==
  LET seps == {i \in 1..Len(str) : str[i] = sep}
      \* position of the nth separator; 0 before the first, Len + 1 after the last
      sepAt(nth) == IF nth = 0 THEN 0
                    ELSE IF nth > Cardinality(seps) THEN Len(str) + 1
                    ELSE CHOOSE p \in seps : Cardinality({q \in seps : q < p}) = nth - 1
  IN  [k \in 1..(Cardinality(seps) + 1) |-> SubSeq(str, sepAt(k - 1) + 1, sepAt(k) - 1)]

\* Array.join(sep)
Join(list, sep) ==
  Concat([k \in 1..Len(list) |-> IF k = 1 THEN list[k] ELSE <<sep>> \o list[k]])

\* parseInt(str, 10): optional leading blanks and sign, then the longest run
\* of digits; NaN when there is no digit.  Trailing text is ignored.
ParseInt(str) ==
  LET blanks == {i \in 0..Len(str) : \A j \in 1..i : str[j] = SP}
      start == CHOOSE i \in blanks : \A j \in blanks : j <= i
      signed == start < Len(str) /\ str[start + 1] \in {43, 45}
      from == IF signed THEN start + 1 ELSE start
      runs == {n \in 0..(Len(str) - from) : \A j \in 1..n : IsDigit(str[from + j])}
      n == CHOOSE i \in runs : \A j \in runs : j <= i
      v == DigitsValue(Slice(str, from, from + n))
  IN  IF n = 0 THEN [nan |-> TRUE, val |-> 0]
      ELSE [nan |-> FALSE,
            val |-> IF signed /\ str[start + 1] = 45 THEN 0 - v ELSE v]

Blob(content) == [type |-> "blob", content |-> content]

Tree(entries) == [type |-> "tree", entries |-> entries]

Commit(tree, parents, author, committer, message) ==
  [type |-> "commit", tree |-> tree, parents |-> parents, author |-> author,
   committer |-> committer, message |-> message]

getType(o) ==
  CASE o.type = "blob" -> STR_blob
    [] o.type = "tree" -> STR_tree
    [] o.type = "commit" -> STR_commit

\* A comparator that takes every entry by its bare name.
TreeSortName_BareName(e) == e.name

\* Tree.getContent's comparator: a directory is compared as name + "/".
TreeSortName(e) == IF StartsWith(e.mode, STR_040000) THEN e.name \o <<SLASH>> ELSE e.name

TreeEntryLess(a, b) == StrLess(TreeSortName(a), TreeSortName(b))

\* A getContent that emits the entries in the order given.
Tree_getContent_AsGiven(entries) ==
  Concat([i \in 1..Len(entries) |->
            Utf8Encode(entries[i].mode \o <<SP>> \o entries[i].name \o <<NUL>>)
              \o FromHex(entries[i].sha)])

Tree_getContent(entries) ==
  LET sortedEntries == SortBy(entries, TreeEntryLess)
  IN  Concat([i \in 1..Len(sortedEntries) |->
                Utf8Encode(sortedEntries[i].mode \o <<SP>> \o sortedEntries[i].name \o <<NUL>>)
                  \o FromHex(sortedEntries[i].sha)])

\* Commit.formatTimezone: the offset is the one of the machine that runs the
\* code (offset = -date.getTimezoneOffset(), in minutes), here tz.
formatTimezone(tz) ==
  LET abs == IF tz >= 0 THEN tz ELSE 0 - tz
  IN  <<IF tz >= 0 THEN 43 ELSE 45>> \o Pad2(abs \div 60) \o Pad2(abs % 60)

ActorLine(keyword, actor, tz) ==
  keyword \o <<SP>> \o actor.name \o <<SP, 60>> \o actor.email \o <<62, SP>>
    \o IntToString(actor.timestamp \div 1000) \o <<SP>> \o formatTimezone(tz)

Commit_getContent(c, tz) ==
  LET lines == <<STR_tree \o <<SP>> \o c.tree>>
                 \o [i \in 1..Len(c.parents) |-> STR_parent \o <<SP>> \o c.parents[i]]
                 \o <<ActorLine(STR_author, c.author, tz),
                      ActorLine(STR_committer, c.committer, tz),
                      <<>>,
                      c.message>>
  IN  Utf8Encode(Join(lines, LF))

getContent(o, tz) ==
  CASE o.type = "blob" -> o.content
    [] o.type = "tree" -> Tree_getContent(o.entries)
    [] o.type = "commit" -> Commit_getContent(o, tz)

\* GitObject.serialize: "<type> <size>\0<content>"
WithHeader(type, content) ==
  Utf8Encode(type \o <<SP>> \o IntToString(Len(content)) \o <<NUL>>) \o content

GitObject_serialize(o, tz) == WithHeader(getType(o), getContent(o, tz))

\* GitObject.getSha
getSha(o, tz) == Sha1Hex(GitObject_serialize(o, tz))

Ok(o) == [ok |-> TRUE, obj |-> o, err |-> "none"]

Fail(e) == [ok |-> FALSE, obj |-> <<>>, err |-> e]

\* GitObject.parseActorLine: /^(.+) <(.+)> (\d+) ([+-]\d{4})$/ with greedy
\* groups; "." matches anything but a line terminator.
ActorMatches(line) ==
  LET n == Len(line)
      dot(c) == c \notin {10, 13, 8232, 8233}
  IN  {m \in (1..n) \X (1..n) :
         /\ m[1] + 3 <= m[2]
         /\ \A i \in 1..m[2] : (i <= m[1] \/ i >= m[1] + 3) => dot(line[i])
         /\ line[m[1] + 1] = SP /\ line[m[1] + 2] = 60
         /\ m[2] + 9 <= n
         /\ line[m[2] + 1] = 62 /\ line[m[2] + 2] = SP
         /\ \A i \in (m[2] + 3)..(n - 6) : IsDigit(line[i])
         /\ line[n - 5] = SP
         /\ line[n - 4] \in {43, 45}
         /\ \A i \in (n - 3)..n : IsDigit(line[i])}

parseActorLine(line) ==
  LET ms == ActorMatches(line)
  IN  IF ms = {} THEN Fail("InvalidActorLine")
      ELSE LET m == CHOOSE a \in ms : \A b \in ms :
                        b[1] < a[1] \/ (b[1] = a[1] /\ b[2] <= a[2])
           IN  Ok([name |-> Slice(line, 0, m[1]),
                   email |-> Slice(line, m[1] + 2, m[2]),
                   timestamp |-> DigitsValue(Slice(line, m[2] + 2, Len(line) - 6)) * 1000])

deserializeBlob(content) == Ok(Blob(content))

RECURSIVE deserializeTreeFrom(_, _, _)
deserializeTreeFrom(content, offset, entries) ==
  IF offset >= Len(content) THEN Ok(Tree(entries))
  ELSE LET nullIndex == IndexOf(content, NUL, offset)
           modeAndName == Utf8Decode(Slice(content, offset, nullIndex))
           spaceIndex == IndexOf(modeAndName, SP, 0)
           shaStart == nullIndex + 1
           shaEnd == shaStart + 20
       IN  IF nullIndex = -1 THEN Fail("MalformedTreeEntry")
           ELSE IF spaceIndex = -1 THEN Fail("MalformedTreeEntry")
           ELSE IF shaEnd > Len(content) THEN Fail("MalformedTreeEntry")
           ELSE deserializeTreeFrom(content, shaEnd,
                  Append(entries,
                         [mode |-> Slice(modeAndName, 0, spaceIndex),
                          name |-> Slice(modeAndName, spaceIndex + 1, Len(modeAndName)),
                          sha |-> ToHex(Slice(content, shaStart, shaEnd))]))

deserializeTree(content) == deserializeTreeFrom(content, 0, <<>>)

\* deserializeCommit after content.toString("utf8").split("\n")
CommitFromLines(lines) ==
  LET empties == {i \in 1..Len(lines) : lines[i] = <<>>}
      stop == IF empties = {} THEN Len(lines) + 1
              ELSE CHOOSE i \in empties : \A j \in empties : i <= j
      \* the header lines the loop visits before its break
      hdr == 1..(stop - 1)
      treeLines == {i \in hdr : StartsWith(lines[i], STR_tree \o <<SP>>)}
      parentLines == {i \in hdr : StartsWith(lines[i], STR_parent \o <<SP>>)}
      authorLines == {i \in hdr : StartsWith(lines[i], STR_author \o <<SP>>)}
      committerLines == {i \in hdr : StartsWith(lines[i], STR_committer \o <<SP>>)}
      last(S) == CHOOSE i \in S : \A j \in S : j <= i
      actorAt(i) == IF i \in authorLines
                      THEN parseActorLine(Slice(lines[i], 7, Len(lines[i])))
                      ELSE parseActorLine(Slice(lines[i], 10, Len(lines[i])))
      badActors == {i \in authorLines \cup committerLines : ~actorAt(i).ok}
      tree == IF treeLines = {} THEN <<>>
              ELSE Slice(lines[last(treeLines)], 5, Len(lines[last(treeLines)]))
      nthParent(nth) == CHOOSE p \in parentLines :
                          Cardinality({q \in parentLines : q < p}) = nth - 1
      parents == [k \in 1..Cardinality(parentLines) |->
                    Slice(lines[nthParent(k)], 7, Len(lines[nthParent(k)]))]
  IN  IF badActors # {} THEN Fail("InvalidActorLine")
      ELSE IF tree = <<>> \/ authorLines = {} \/ committerLines = {} \/ empties = {}
        THEN Fail("MissingCommitField")
      ELSE Ok(Commit(tree, parents,
                     actorAt(last(authorLines)).obj,
                     actorAt(last(committerLines)).obj,
                     Join(SubSeq(lines, stop + 1, Len(lines)), LF)))

deserializeCommit(content) == CommitFromLines(Split(Utf8Decode(content), LF))

\* GitObject.deserialize
GitObject_deserialize(data) ==
  LET nullIndex == IndexOf(data, NUL, 0)
      header == Utf8Decode(Slice(data, 0, nullIndex))
      content == Slice(data, nullIndex + 1, Len(data))
      spaceIndex == IndexOf(header, SP, 0)
      type == Slice(header, 0, spaceIndex)
      size == ParseInt(Slice(header, spaceIndex + 1, Len(header)))
  IN  IF nullIndex = -1 THEN Fail("NoNullSeparator")
      ELSE IF spaceIndex = -1 THEN Fail("InvalidHeaderFormat")
      ELSE IF size.nan \/ Len(content) # size.val THEN Fail("SizeMismatch")
      ELSE IF type = STR_blob THEN deserializeBlob(content)
      ELSE IF type = STR_tree THEN deserializeTree(content)
      ELSE IF type = STR_commit THEN deserializeCommit(content)
      ELSE Fail("UnknownObjectType")

----------------------------------------------------------------------------
(* zlib deflate / inflate.  The stream is modelled as the zlib header, the  *)
(* payload and a four-byte check value of the payload; inflate fails on a   *)
(* stream that is cut short or whose check value does not match.            *)

deflate(data) == <<120, 156>> \o data \o SubSeq(Sha1Digest(data), 1, 4)

inflate(stream) ==
  LET n == Len(stream)
      body == SubSeq(stream, 3, n - 4)
  IN  IF n >= 6 /\ stream[1] = 120 /\ stream[2] = 156
           /\ SubSeq(stream, n - 3, n) = SubSeq(Sha1Digest(body), 1, 4)
        THEN Ok(body)
        ELSE Fail("IO_ERROR")

----------------------------------------------------------------------------
(* Object store (ObjectRepository) on a file system.                        *)
(*   dirs    fan-out directories that exist under objects/                  *)
(*   fsys    directory entries: path |-> inode number                       *)
(*   inodes  inode number |-> file content                                  *)
(*   now     Date.now(), in milliseconds                                    *)
(*   calls   the write() calls: position and local variables of each        *)
(*           (err: the error caught from rename, thrown: the error the      *)
(*           call ended with)                                               *)
(*   lastRead  the outcome of the latest read() call                        *)
(*   damaged   hashes whose object file was altered outside the program     *)

VARIABLES dirs, fsys, inodes, now, calls, lastRead, damaged

storeVars == <<dirs, fsys, inodes, now, calls, lastRead, damaged>>

\* State of the other components.
\*   codec      an object-codec round trip (see below)
\*   index      Index._entries of the running command, in insertion order
\*   running    a command has read the index file and holds an Index
\*   indexFile  the bytes of the index file (empty: no file)
\*   saved      the entries the Index held when the file was last written
\*   altered    the file was changed since it was written
\*   loaded     the outcome of the latest Index.deserialize
\*   builds     the trees built so far: the entries given, the root hash and
\*              the number of Tree objects handed to the object store
VARIABLES codec, index, running, indexFile, saved, altered, loaded, builds

indexVars == <<index, running, indexFile, saved, altered, loaded>>

\* State of the commit command.
\*   refs        the reference files under the git directory: path -> text
\*   config      the [user] section of the config file: name and email
\*   commits     the hashes returned by the execute calls that succeeded
\*   lastCommit  the latest execute call and how it ended
VARIABLES refs, config, commits, lastCommit

commitVars == <<refs, config, commits, lastCommit>>

\* State of the add and log commands.
\*   work     the working tree: path -> what is found at that path
\*   lastAdd  the latest add invocation: its arguments, what the working tree
\*            held at each of them, the index file it found with the paths
\*            staged in it, and how it ended
\*   lastLog  the latest log invocation: the answers of the object repository
\*            it was given, what HEAD resolved to, the queue, the visited set
\*            and the history of collectCommitHistory, the hashes read, and
\*            whether "No commits found." was printed
VARIABLES work, lastAdd, lastLog

serviceVars == <<work, lastAdd, lastLog>>

buildVars == <<builds, commitVars, serviceVars>>

otherVars == <<codec, indexVars, buildVars>>

CodecIdle == [pc |-> "idle", pid |-> 0, obj |-> 0, data |-> <<>>, back |-> 0,
              again |-> <<>>]

NotLoaded == [done |-> FALSE, ok |-> FALSE, err |-> "none", entries |-> <<>>]

STR_HEAD == <<72, 69, 65, 68>>
STR_refPrefix == <<114, 101, 102, 58, SP>>
STR_headsPrefix == <<114, 101, 102, 58, SP, 114, 101, 102, 115, SLASH, 104, 101, 97, 100, 115, SLASH>>
STR_refsHeads == <<114, 101, 102, 115, SLASH, 104, 101, 97, 100, 115, SLASH>>
STR_main == <<109, 97, 105, 110>>

NoCommit == [n |-> 0, message |-> <<>>, entries |-> <<>>, ok |-> FALSE,
             err |-> "none", sha |-> <<>>]

NoAdd == [done |-> FALSE, files |-> <<>>, kinds |-> <<>>, staged |-> {},
          before |-> <<>>, ok |-> FALSE, err |-> "none"]

NoLog == [pc |-> "idle", ok |-> FALSE, err |-> "none", none |-> FALSE,
          head |-> [ok |-> FALSE, sha |-> <<>>, err |-> "none"], objectRepo |-> <<>>,
          queue |-> <<>>, visited |-> {}, history |-> <<>>, reads |-> <<>>]

\* An empty working tree; no add and no log has run.
ServiceInit ==
  /\ work = <<>>
  /\ lastAdd = NoAdd
  /\ lastLog = NoLog

\* A repository without commits: HEAD names the branch main, which has no
\* reference file yet, and no user is configured.
CommitInit ==
  /\ refs = [p \in {STR_HEAD} |-> STR_refPrefix \o STR_refsHeads \o STR_main \o <<LF>>]
  /\ config = [name |-> <<>>, email |-> <<>>]
  /\ commits = <<>>
  /\ lastCommit = NoCommit
  /\ ServiceInit

IndexInit ==
  /\ index = <<>>
  /\ running = FALSE
  /\ indexFile = <<>>
  /\ saved = <<>>
  /\ altered = FALSE
  /\ loaded = NotLoaded

MaxCalls == 2
MaxClock == 1

Pids == {1, 2}

\* The time zone of the machine a process runs on (minutes east of UTC):
\* the value Commit.formatTimezone reads from the environment.
TimezoneOf(pid) == IF pid = 1 THEN 0 ELSE 540

HexName(c) == [i \in 1..40 |-> c]

ActorA == [name |-> <<65>>, email |-> <<97, 64, 98>>, timestamp |-> 1000]

\* The objects the write calls are given.
StoreObjects ==
  <<Blob(<<104, 105>>),
    Commit(HexName(97), <<>>, ActorA, ActorA, <<109>>)>>

\* ObjectRepository.getObjectPath: /^[0-9a-f]{40}$/i, then <2 hex>/<38 hex>
IsValidSha(sha) == Len(sha) = 40 /\ \A i \in 1..40 : IsHexChar(sha[i])

getObjectPath(sha) ==
  [dir |-> SubSeq(ToLowerCase(sha), 1, 2), name |-> SubSeq(ToLowerCase(sha), 3, 40)]

\* `${filePath}.tmp.${process.pid}.${Date.now()}`
TempFilePath(filePath, pid, time) ==
  [dir |-> filePath.dir,
   name |-> filePath.name \o <<46, 116, 109, 112, 46>> \o IntToString(pid)
              \o <<46>> \o IntToString(time)]

FileExists(path) == path \in DOMAIN fsys

FileContent(path) == inodes[fsys[path]]

IdleCall == [pc |-> "idle", pid |-> 0, obj |-> 0, data |-> <<>>, sha |-> <<>>,
             tmp |-> <<>>, fd |-> 0, result |-> <<>>, err |-> "none",
             thrown |-> "none"]

NoRead == [sha |-> <<>>, pid |-> 0, ok |-> FALSE, err |-> "none", stored |-> <<>>,
           data |-> <<>>]

StoreInit ==
  /\ dirs = {}
  /\ fsys = <<>>
  /\ inodes = <<>>
  /\ now = 0
  /\ calls = [w \in 1..MaxCalls |-> IdleCall]
  /\ lastRead = NoRead
  /\ damaged = {}

\* The clock advances.
Tick ==
  /\ now < MaxClock
  /\ now' = now + 1
  /\ UNCHANGED <<otherVars, dirs, fsys, inodes, calls, lastRead, damaged>>

\* write(): serialize, getSha, getObjectPath (objectRepository.ts 84-92)
WriteStart(w, pid, k) ==
  /\ calls[w].pc = "idle"
  /\ LET data == GitObject_serialize(StoreObjects[k], TimezoneOf(pid))
     IN  calls' = [calls EXCEPT ![w] =
                     [IdleCall EXCEPT !.pc = "access", !.pid = pid, !.obj = k,
                                      !.data = data, !.sha = Sha1Hex(data)]]
  /\ UNCHANGED <<otherVars, dirs, fsys, inodes, now, lastRead, damaged>>

\* A write that never skips: it goes on to rewrite an existing file.
WriteAccess_NoSkip(w) ==
  /\ calls[w].pc = "access"
  /\ calls' = [calls EXCEPT ![w] = [@ EXCEPT !.pc = "mkdir"]]
  /\ UNCHANGED <<otherVars, dirs, fsys, inodes, now, lastRead, damaged>>

\* write(): fs.access(objectPath); an existing file ends the call
WriteAccess(w) ==
  /\ calls[w].pc = "access"
  /\ calls' = [calls EXCEPT ![w] =
                 IF FileExists(getObjectPath(calls[w].sha))
                   THEN [@ EXCEPT !.pc = "done", !.result = calls[w].sha]
                   ELSE [@ EXCEPT !.pc = "mkdir"]]
  /\ UNCHANGED <<otherVars, dirs, fsys, inodes, now, lastRead, damaged>>

\* writeCompressedFile: ensureDirectoryExists, deflate, temp file name
WriteMkdir(w) ==
  /\ calls[w].pc = "mkdir"
  /\ dirs' = dirs \cup {getObjectPath(calls[w].sha).dir}
  /\ calls' = [calls EXCEPT ![w] =
                 [@ EXCEPT !.pc = "open",
                           !.tmp = TempFilePath(getObjectPath(calls[w].sha),
                                                calls[w].pid, now)]]
  /\ UNCHANGED <<otherVars, fsys, inodes, now, lastRead, damaged>>

\* fs.writeFile(tempFilePath, ...), first half: open with O_CREAT | O_TRUNC
WriteOpen(w) ==
  /\ calls[w].pc = "open"
  /\ LET tmp == calls[w].tmp
     IN  IF FileExists(tmp)
           THEN /\ inodes' = [inodes EXCEPT ![fsys[tmp]] = <<>>]
                /\ fsys' = fsys
                /\ calls' = [calls EXCEPT ![w] = [@ EXCEPT !.pc = "write", !.fd = fsys[tmp]]]
           ELSE /\ inodes' = Append(inodes, <<>>)
                /\ fsys' = [q \in DOMAIN fsys \cup {tmp} |->
                              IF q = tmp THEN Len(inodes) + 1 ELSE fsys[q]]
                /\ calls' = [calls EXCEPT ![w] = [@ EXCEPT !.pc = "write", !.fd = Len(inodes) + 1]]
  /\ UNCHANGED <<otherVars, dirs, now, lastRead, damaged>>

\* fs.writeFile, second half: the compressed bytes are written from offset 0
\* through the open descriptor
WriteData(w) ==
  /\ calls[w].pc = "write"
  /\ LET bytes == deflate(calls[w].data)
         old == inodes[calls[w].fd]
     IN  inodes' = [inodes EXCEPT ![calls[w].fd] =
                      bytes \o SubSeq(old, Len(bytes) + 1, Len(old))]
  /\ calls' = [calls EXCEPT ![w] = [@ EXCEPT !.pc = "rename"]]
  /\ UNCHANGED <<otherVars, dirs, fsys, now, lastRead, damaged>>

\* A catch block that tolerates EEXIST only.
RenameErrorTolerated_EexistOnly(err) == err = "EEXIST"

\* The test that decides whether a failed rename is tolerated:
\* error.message.includes("EEXIST") || error.message.includes("ENOENT")
RenameErrorTolerated(err) == err \in {"EEXIST", "ENOENT"}

\* fs.rename(tempFilePath, filePath): fails with ENOENT when the temporary
\* file is gone
WriteRename(w) ==
  /\ calls[w].pc = "rename"
  /\ LET tmp == calls[w].tmp
         target == getObjectPath(calls[w].sha)
     IN  IF FileExists(tmp)
           THEN /\ fsys' = [q \in (DOMAIN fsys \cup {target}) \ {tmp} |->
                              IF q = target THEN fsys[tmp] ELSE fsys[q]]
                /\ calls' = [calls EXCEPT ![w] =
                               [@ EXCEPT !.pc = "done", !.result = calls[w].sha]]
           ELSE /\ fsys' = fsys
                /\ calls' = [calls EXCEPT ![w] = [@ EXCEPT !.pc = "unlink", !.err = "ENOENT"]]
  /\ UNCHANGED <<otherVars, dirs, inodes, now, lastRead, damaged>>

\* catch block: fs.unlink(tempFilePath), failures ignored
WriteUnlink(w) ==
  /\ calls[w].pc = "unlink"
  /\ fsys' = [q \in DOMAIN fsys \ {calls[w].tmp} |-> fsys[q]]
  /\ calls' = [calls EXCEPT ![w] = [@ EXCEPT !.pc = "recheck"]]
  /\ UNCHANGED <<otherVars, dirs, inodes, now, lastRead, damaged>>

\* catch block: a tolerated error and an existing target count as success,
\* anything else is rethrown as IO_ERROR
WriteRecheck(w) ==
  /\ calls[w].pc = "recheck"
  /\ calls' = [calls EXCEPT ![w] =
                 IF RenameErrorTolerated(calls[w].err)
                      /\ FileExists(getObjectPath(calls[w].sha))
                   THEN [@ EXCEPT !.pc = "done", !.result = calls[w].sha]
                   ELSE [@ EXCEPT !.pc = "done", !.thrown = "IO_ERROR"]]
  /\ UNCHANGED <<otherVars, dirs, fsys, inodes, now, lastRead, damaged>>

\* read(sha) executed by process pid (objectRepository.ts 45-77).  The
\* two INVALID_SHA errors of the code are told apart here: a malformed
\* hash string (INVALID_SHA) and a hash that disagrees (SHA_MISMATCH).
\* stored is the decompressed content of the object file, data the
\* serialization of the object returned.
ReadCompared(base, sha, plain, again) ==
  IF Sha1Hex(again) # ToLowerCase(sha)
    THEN [base EXCEPT !.stored = plain, !.err = "SHA_MISMATCH"]
    ELSE [base EXCEPT !.stored = plain, !.ok = TRUE, !.data = again]

ReadParsed(base, pid, sha, plain, parsed) ==
  IF ~parsed.ok THEN [base EXCEPT !.stored = plain, !.err = "DESERIALIZATION_ERROR"]
  ELSE ReadCompared(base, sha, plain, GitObject_serialize(parsed.obj, TimezoneOf(pid)))

ReadInflated(base, pid, sha, plain) ==
  IF ~plain.ok THEN [base EXCEPT !.err = "IO_ERROR"]
  ELSE ReadParsed(base, pid, sha, plain.obj, GitObject_deserialize(plain.obj))

ReadOutcome(pid, sha) ==
  IF ~IsValidSha(sha) THEN [NoRead EXCEPT !.sha = sha, !.pid = pid, !.err = "INVALID_SHA"]
  ELSE IF ~FileExists(getObjectPath(sha))
    THEN [NoRead EXCEPT !.sha = sha, !.pid = pid, !.err = "NOT_FOUND"]
  ELSE ReadInflated([NoRead EXCEPT !.sha = sha, !.pid = pid], pid, sha,
                    inflate(FileContent(getObjectPath(sha))))

\* The hashes a read is asked for: those returned by write calls, and a
\* string that is not a hash.
KnownShas == {calls[w].result : w \in {v \in 1..MaxCalls : calls[v].pc = "done"}} \ {<<>>}

Read(pid, sha) ==
  /\ lastRead' = ReadOutcome(pid, sha)
  /\ UNCHANGED <<otherVars, dirs, fsys, inodes, now, calls, damaged>>

\* Contents an object file can be found to hold after damage or after a
\* foreign writer: a stream cut short, another object's stream, and the same
\* object with its size written with a leading zero.
LeadingZeroSize(data) ==
  LET sp == IndexOf(data, SP, 0)
  IN  SubSeq(data, 1, sp + 1) \o <<48>> \o SubSeq(data, sp + 2, Len(data))

DamagedContents(data) ==
  {SubSeq(deflate(data), 1, 4),
   deflate(LeadingZeroSize(data))}
    \cup {deflate(GitObject_serialize(StoreObjects[k], 0)) : k \in 1..Len(StoreObjects)}

\* The environment alters an object file (bit rot, a foreign writer).
Damage(w, bytes) ==
  /\ calls[w].pc = "done"
  /\ calls[w].sha \notin damaged
  /\ FileExists(getObjectPath(calls[w].sha))
  /\ bytes # FileContent(getObjectPath(calls[w].sha))
  /\ inodes' = [inodes EXCEPT ![fsys[getObjectPath(calls[w].sha)]] = bytes]
  /\ damaged' = damaged \cup {calls[w].sha}
  /\ UNCHANGED <<otherVars, dirs, fsys, now, calls, lastRead>>

NoCallInFlight == \A w \in 1..MaxCalls : calls[w].pc \in {"idle", "done"}

vars == <<storeVars, otherVars>>

Init == StoreInit /\ codec = CodecIdle /\ IndexInit /\ builds = <<>> /\ CommitInit

\* Concurrent write calls, in one process or in several.
Next ==
  \/ Tick
  \/ \E w \in 1..MaxCalls, pid \in Pids, k \in 1..Len(StoreObjects) : WriteStart(w, pid, k)
  \/ \E w \in 1..MaxCalls : WriteAccess(w)
  \/ \E w \in 1..MaxCalls : WriteMkdir(w)
  \/ \E w \in 1..MaxCalls : WriteOpen(w)
  \/ \E w \in 1..MaxCalls : WriteData(w)
  \/ \E w \in 1..MaxCalls : WriteRename(w)
  \/ \E w \in 1..MaxCalls : WriteUnlink(w)
  \/ \E w \in 1..MaxCalls : WriteRecheck(w)

Spec == Init /\ [][Next]_vars

\* Write calls one after the other, reads, and damage to object files.
NextRead ==
  \/ \E w \in 1..MaxCalls, pid \in Pids, k \in 1..Len(StoreObjects) :
        NoCallInFlight /\ WriteStart(w, pid, k)
  \/ \E w \in 1..MaxCalls : WriteAccess(w)
  \/ \E w \in 1..MaxCalls : WriteMkdir(w)
  \/ \E w \in 1..MaxCalls : WriteOpen(w)
  \/ \E w \in 1..MaxCalls : WriteData(w)
  \/ \E w \in 1..MaxCalls : WriteRename(w)
  \/ \E pid \in Pids, sha \in KnownShas \cup {<<120>>} : NoCallInFlight /\ Read(pid, sha)
  \/ \E w \in 1..MaxCalls : \E bytes \in DamagedContents(calls[w].data) :
        NoCallInFlight /\ Damage(w, bytes)

SpecRead == Init /\ [][NextRead]_vars

----------------------------------------------------------------------------
(* Claims about the object store.                                           *)

AllCallsDone == \A w \in 1..MaxCalls : calls[w].pc = "done"

SameContentCalls(w, v) ==
  calls[w].pc # "idle" /\ calls[v].pc # "idle" /\ calls[w].data = calls[v].data

\* C1: concurrent write calls for identical serialized bytes all return
\* without error and with the same hash, and once all have returned the
\* object file exists at the fan-out path of that hash.
C1_ConcurrentWritesSucceed ==
  /\ \A w \in 1..MaxCalls : calls[w].pc = "done" =>
        /\ calls[w].thrown = "none"
        /\ calls[w].result = calls[w].sha
        /\ \A v \in 1..MaxCalls :
              (calls[v].pc = "done" /\ SameContentCalls(w, v)) =>
                 calls[v].result = calls[w].result
  /\ AllCallsDone =>
        \A w \in 1..MaxCalls :
           /\ FileExists(getObjectPath(calls[w].result))
           /\ getObjectPath(calls[w].result).dir \in dirs

\* Two calls for the same bytes raced: one lost the rename and still returned
\* the hash.
C1_Witness ==
  /\ AllCallsDone
  /\ \E w, v \in 1..MaxCalls :
        /\ w # v /\ SameContentCalls(w, v)
        /\ calls[w].err = "none" /\ calls[w].fd # 0
        /\ calls[v].err = "ENOENT" /\ calls[v].result = calls[w].result

\* C2: at every instant the target object file either does not exist or
\* holds the complete compressed serialized bytes of the object.
C2_TargetNeverPartial ==
  \A w \in 1..MaxCalls :
     (calls[w].pc # "idle" /\ FileExists(getObjectPath(calls[w].sha))) =>
        FileContent(getObjectPath(calls[w].sha)) = deflate(calls[w].data)

\* A write call holds its temporary path from the moment the name is formed
\* until the file is renamed or removed.
TempInUse(w) == calls[w].pc \in {"open", "write", "rename", "unlink"}

\* C27: no two write calls in flight at the same time use the same
\* temporary path.
C27_TempPathsUnique ==
  \A w1, w2 \in 1..MaxCalls :
     w1 # w2 /\ TempInUse(w1) /\ TempInUse(w2) => calls[w1].tmp # calls[w2].tmp

\* The part of C27 for calls of different processes.
C27_OtherProcess ==
  \A w1, w2 \in 1..MaxCalls :
     /\ w1 # w2 /\ TempInUse(w1) /\ TempInUse(w2)
     /\ calls[w1].pid # calls[w2].pid
     => calls[w1].tmp # calls[w2].tmp

\* C3: when the target file already exists a write returns the hash without
\* touching the store; writes of identical bytes return the same hash and,
\* once they have returned, the content is held by exactly one file.
C3_Step(w) ==
  (calls[w].pc = "access" /\ calls'[w].pc # "access"
     /\ FileExists(getObjectPath(calls[w].sha))) =>
        /\ fsys' = fsys /\ inodes' = inodes
        /\ calls'[w].pc = "done" /\ calls'[w].result = calls[w].sha

FilesHolding(sha) ==
  {q \in DOMAIN fsys : q.dir = getObjectPath(sha).dir
                       /\ StartsWith(q.name, getObjectPath(sha).name)}

C3_OneFile ==
  NoCallInFlight =>
    \A w \in 1..MaxCalls : calls[w].pc = "done" =>
       /\ FilesHolding(calls[w].sha) = {getObjectPath(calls[w].sha)}
       /\ \A v \in 1..MaxCalls :
             (calls[v].pc = "done" /\ SameContentCalls(w, v)) =>
                calls[v].result = calls[w].result

C3_WriteIdempotent ==
  [][(\A w \in 1..MaxCalls : C3_Step(w)) /\ C3_OneFile']_vars

\* A second write of the same bytes found the file and returned at once.
C3_Witness ==
  \E w, v \in 1..MaxCalls :
     /\ w # v /\ SameContentCalls(w, v)
     /\ calls[w].pc = "done" /\ calls[v].pc = "done"
     /\ calls[w].fd # 0 /\ calls[v].fd = 0 /\ calls[v].result = calls[w].result

\* C5: after write(o) returned h, a later read(h) of the untouched object
\* file succeeds and returns an object whose serialized bytes and hash are
\* those of o.
C5_WriteThenRead ==
  \A w \in 1..MaxCalls :
     (/\ calls[w].pc = "done" /\ calls[w].result # <<>>
      /\ lastRead.sha = calls[w].result
      /\ lastRead.sha \notin damaged)
     => /\ lastRead.ok
        /\ lastRead.data = calls[w].data
        /\ Sha1Hex(lastRead.data) = calls[w].result

\* C6: a read that got as far as comparing hashes fails with a hash mismatch
\* exactly when the SHA-1 of the decompressed bytes differs from the hash
\* asked for.
ReadComparedHashes == lastRead.pid # 0 /\ lastRead.err \in {"none", "SHA_MISMATCH"}

C6_MismatchIffStoredBytesDiffer ==
  ReadComparedHashes
    => ((lastRead.err = "SHA_MISMATCH")
          <=> (Sha1Hex(lastRead.stored) # ToLowerCase(lastRead.sha)))

\* The two halves of C6.
C6_NeverReturnsForeignBytes ==
  lastRead.ok => Sha1Hex(lastRead.stored) = ToLowerCase(lastRead.sha)

C6_NeverRejectsMatchingBytes ==
  (lastRead.pid # 0 /\ lastRead.err = "SHA_MISMATCH")
    => Sha1Hex(lastRead.stored) # ToLowerCase(lastRead.sha)

----------------------------------------------------------------------------
(* Object codec round trip: an object is serialized, the bytes are           *)
(* deserialized, and the result is serialized again, all in one process.     *)
(*   codec   the object given, the process, and the value of each step       *)

MaxBlobLen == 2
MaxTreeEntries == 2
MaxParents == 2

SeqsUpTo(S, n) == UNION {[1..k -> S] : k \in 0..n}

CodecBlobs == {Blob(c) : c \in SeqsUpTo({0, 32, 104, 255}, MaxBlobLen)}

CodecTreeEntries ==
  {[mode |-> m, name |-> n, sha |-> HexName(97)] :
     m \in {STR_100644, STR_040000}, n \in {<<97>>, <<97, 46>>, <<233>>}}

CodecTrees == {Tree(es) : es \in SeqsUpTo(CodecTreeEntries, MaxTreeEntries)}

\* Actors the Commit constructor accepts: any name, email and Date.
CodecActors ==
  {ActorA,
   [name |-> <<65, 32, 60>>, email |-> <<97, 64, 98>>, timestamp |-> 1500],
   [name |-> <<65>>, email |-> <<>>, timestamp |-> 1000],
   [name |-> <<65>>, email |-> <<97, 64, 98>>, timestamp |-> 0 - 1000]}

CodecCommits ==
  {Commit(HexName(97), ps, a, c, m) :
     ps \in SeqsUpTo({HexName(98)}, MaxParents),
     a \in CodecActors, c \in CodecActors,
     m \in {<<>>, <<109>>, <<109, 10, 10, 120>>, <<233>>}}

CodecObjects == CodecBlobs \cup CodecTrees \cup CodecCommits

CodecInit ==
  /\ StoreInit
  /\ IndexInit
  /\ builds = <<>>
  /\ CommitInit
  /\ codec \in {[CodecIdle EXCEPT !.pc = "new", !.pid = pid, !.obj = o] :
                  pid \in Pids, o \in CodecObjects}

CodecSerialize ==
  /\ codec.pc = "new"
  /\ codec' = [codec EXCEPT !.pc = "serialized",
                            !.data = GitObject_serialize(codec.obj, TimezoneOf(codec.pid))]
  /\ UNCHANGED <<storeVars, indexVars, buildVars>>

CodecDeserialize ==
  /\ codec.pc = "serialized"
  /\ codec' = [codec EXCEPT !.pc = "parsed", !.back = GitObject_deserialize(codec.data)]
  /\ UNCHANGED <<storeVars, indexVars, buildVars>>

CodecReserialize ==
  /\ codec.pc = "parsed"
  /\ codec.back.ok
  /\ codec' = [codec EXCEPT !.pc = "done",
                            !.again = GitObject_serialize(codec.back.obj,
                                                          TimezoneOf(codec.pid))]
  /\ UNCHANGED <<storeVars, indexVars, buildVars>>

NextCodec ==
  \/ CodecSerialize
  \/ CodecDeserialize
  \/ CodecReserialize

SpecCodec == CodecInit /\ [][NextCodec]_vars

\* C4: for every object the constructors accept, deserialize(serialize(o))
\* succeeds and serializes again to the bytes of serialize(o), with the same
\* hash.
C4_ObjectRoundTrip ==
  /\ codec.pc = "parsed" => codec.back.ok
  /\ codec.pc = "done" => /\ codec.again = codec.data
                          /\ Sha1Hex(codec.again) = Sha1Hex(codec.data)

\* The part of C4 that holds: commits whose actors have a name, an e-mail
\* address and a time stamp not before 1970, and all blobs and trees drawn.
ParsableActor(a) == a.name # <<>> /\ a.email # <<>> /\ a.timestamp >= 0

C4_ParsableRoundTrip ==
  (codec.pc # "idle" /\ codec.obj.type = "commit"
     => ParsableActor(codec.obj.author) /\ ParsableActor(codec.obj.committer))
  => C4_ObjectRoundTrip

\* C29: the bytes and the hash of a Commit do not depend on the time zone of
\* the machine: a run in any zone serializes the same Commit value, and
\* re-serializes a commit parsed from the bytes written by another run, to
\* the same bytes.
C29_ZoneIndependentBytes ==
  codec.obj.type = "commit"
  => /\ codec.pc \in {"serialized", "parsed", "done"}
          => \A p \in Pids :
                /\ GitObject_serialize(codec.obj, TimezoneOf(p)) = codec.data
                /\ getSha(codec.obj, TimezoneOf(p)) = Sha1Hex(codec.data)
     /\ (codec.pc \in {"parsed", "done"} /\ codec.back.ok)
          => \A p \in Pids :
                GitObject_serialize(codec.back.obj, TimezoneOf(p)) = codec.data

\* What holds instead: runs in the same zone produce the same bytes.
C29_SameZoneSameBytes ==
  (codec.obj.type = "commit"
     /\ codec.pc \in {"serialized", "parsed", "done"})
  => /\ GitObject_serialize(codec.obj, TimezoneOf(codec.pid)) = codec.data
     /\ getSha(codec.obj, TimezoneOf(codec.pid)) = Sha1Hex(codec.data)

\* All orders in which the elements of the sequence s can be given.
Orderings(s) ==
  {[i \in 1..Len(s) |-> s[p[i]]] :
     p \in {q \in [1..Len(s) -> 1..Len(s)] : \A i, j \in 1..Len(s) : q[i] = q[j] => i = j}}

DistinctNames(entries) ==
  \A i, j \in 1..Len(entries) : entries[i].name = entries[j].name => i = j

\* the name an entry is ordered by in a canonical tree
CanonicalKey(e) == IF e.mode = STR_040000 THEN e.name \o <<SLASH>> ELSE e.name

\* C11: a Tree given entries with distinct names serializes to the same
\* bytes and hash whatever the order of the entries given, and the entries
\* are emitted in ascending order of name (file) or name + "/" (directory).
C11_TreeCanonicalOrder ==
  (codec.pc \in {"parsed", "done"} /\ codec.obj.type = "tree"
     /\ DistinctNames(codec.obj.entries))
  => /\ \A es \in Orderings(codec.obj.entries) :
          /\ GitObject_serialize(Tree(es), TimezoneOf(codec.pid)) = codec.data
          /\ getSha(Tree(es), TimezoneOf(codec.pid)) = Sha1Hex(codec.data)
     /\ codec.back.ok
     /\ Len(codec.back.obj.entries) = Len(codec.obj.entries)
     /\ \A i \in 1..(Len(codec.back.obj.entries) - 1) :
          StrLess(CanonicalKey(codec.back.obj.entries[i]),
                  CanonicalKey(codec.back.obj.entries[i + 1]))

\* the directory "a" given before the file "a.", which is emitted first
C11_Witness ==
  /\ codec.pc = "done" /\ codec.obj.type = "tree"
  /\ Len(codec.obj.entries) = 2
  /\ codec.obj.entries[1].name = <<97>> /\ codec.obj.entries[1].mode = STR_040000
  /\ codec.obj.entries[2].name = <<97, 46>> /\ codec.obj.entries[2].mode = STR_100644
  /\ codec.back.obj.entries[1].name = <<97, 46>>

(* Object headers: bytes with a well-formed or malformed header are given  *)
(* to GitObject.deserialize.                                                *)

\* "blob 2", "tree 0", "blub 2"; no space: "blob", "blob2", ""; a size that
\* is no number: "blob x", "blob ", "blob -"; a size followed or preceded by
\* other characters: "blob 2x", "blob 2 ", "blob  2", "blob +2", "blob 2.0"
HeaderTexts ==
  {STR_blob \o <<SP, 50>>, STR_tree \o <<SP, 48>>, <<98, 108, 117, 98, SP, 50>>,
   STR_blob, STR_blob \o <<50>>, <<>>,
   STR_blob \o <<SP, 120>>, STR_blob \o <<SP>>, STR_blob \o <<SP, 45>>,
   STR_blob \o <<SP, 50, 120>>, STR_blob \o <<SP, 50, SP>>, STR_blob \o <<SP, SP, 50>>,
   STR_blob \o <<SP, 43, 50>>, STR_blob \o <<SP, 50, 46, 48>>}

HeaderContents == {<<>>, <<104>>, <<104, 105>>, <<104, 105, 10>>, <<NUL, 104>>}

HeaderInit ==
  /\ StoreInit
  /\ IndexInit
  /\ builds = <<>>
  /\ CommitInit
  /\ codec \in {[CodecIdle EXCEPT !.pc = "serialized", !.pid = 1,
                                  !.data = Utf8Encode(h) \o <<NUL>> \o c] :
                  h \in HeaderTexts, c \in HeaderContents}

NextHeader ==
  \/ CodecDeserialize
  \/ CodecReserialize

SpecHeader == HeaderInit /\ [][NextHeader]_vars

\* the bytes before the first NUL
HeaderOf(data) == Slice(data, 0, IndexOf(data, NUL, 0))

\* "<type> <integer>": a type without blanks, one space, decimal digits
IsTypeAndInteger(header) ==
  \E k \in 2..(Len(header) - 1) :
     /\ header[k] = SP
     /\ \A i \in 1..(k - 1) : header[i] # SP
     /\ \A i \in (k + 1)..Len(header) : IsDigit(header[i])

\* C20: deserialize refuses with InvalidHeaderFormat every input whose
\* header, the bytes before the first NUL, is not "<type> <integer>"; it
\* neither accepts such input nor reports another error for it.
C20_MalformedHeaderIsInvalidHeaderFormat ==
  (codec.pc \in {"parsed", "done"} /\ ~IsTypeAndInteger(HeaderOf(codec.data)))
  => (~codec.back.ok /\ codec.back.err = "InvalidHeaderFormat")

\* C20 for headers without any space.
C20_NoSpaceIsInvalidHeaderFormat ==
  (\A i \in 1..Len(HeaderOf(codec.data)) : HeaderOf(codec.data)[i] # SP)
  => C20_MalformedHeaderIsInvalidHeaderFormat

----------------------------------------------------------------------------
(* Index codec (class Index) and the commands that read and write the       *)
(* index file.                                                               *)

INDEX_SIGNATURE == <<68, 73, 82, 67>>

INDEX_VERSION == 2

FIXED_SIZE == 62

ALIGNMENT == 8

INDEX_HEADER_SIZE == 12

INDEX_CHECKSUM_SIZE == 20

NAME_LENGTH_MASK == 4095

\* Buffer.writeUInt32BE / writeUInt16BE / readUInt32BE / readUInt16BE
UInt32BE(v) == <<(v \div 16777216) % 256, (v \div 65536) % 256, (v \div 256) % 256, v % 256>>

UInt16BE(v) == <<(v \div 256) % 256, v % 256>>

ReadUInt32BE(data, pos) ==
  data[pos + 1] * 16777216 + data[pos + 2] * 65536 + data[pos + 3] * 256 + data[pos + 4]

ReadUInt16BE(data, pos) == data[pos + 1] * 256 + data[pos + 2]

\* buffer.write(str, offset, "utf8") into the room left: the bytes of the
\* longest prefix of whole characters that fits.
BufferWrite(str, room) ==
  IF Utf8Length(str) <= room THEN Utf8Encode(str) ELSE
  LET fits == {k \in 0..Len(str) : Utf8Length(SubSeq(str, 1, k)) <= room}
      most == CHOOSE k \in fits : \A j \in fits : j <= k
  IN  Utf8Encode(SubSeq(str, 1, most))

\* A set() that never looks for the key: every entry is appended.
MapSet_Append(entries, entry) == Append(entries, entry)

\* Map.set(key, value) on a Map kept as the sequence of its values in
\* insertion order; the key of an entry is its path.
MapSet(entries, entry) ==
  IF \E i \in 1..Len(entries) : entries[i].path = entry.path
    THEN [i \in 1..Len(entries) |->
            IF entries[i].path = entry.path THEN entry ELSE entries[i]]
    ELSE Append(entries, entry)

\* Map.delete(key)
MapDelete(entries, path) ==
  LET keep == {i \in 1..Len(entries) : entries[i].path # path}
  IN  [k \in 1..Cardinality(keep) |->
         entries[CHOOSE i \in keep : Cardinality({j \in keep : j < i}) = k - 1]]

\* A getAllEntries that skips the sort: the values in insertion order.
Index_getAllEntries_Unsorted(entries) == entries

PathLess(a, b) == StrLess(a.path, b.path)

\* Index.getAllEntries: the values sorted by path with < on strings
Index_getAllEntries(entries) == SortBy(entries, PathLess)

\* Index.timestampToFileTime
timestampToFileTime(timestampMs) ==
  [seconds |-> timestampMs \div 1000, nanoseconds |-> (timestampMs % 1000) * 1000000]

\* Index.createFlags(nameLength, stage, assumeValid)
createFlags(nameLength, stage, assumeValid) ==
  (IF assumeValid THEN 32768 ELSE 0) + (stage % 4) * 4096
    + Min(nameLength, NAME_LENGTH_MASK)

\* Index.createEntryFromStats: the flags carry _path.length, the number of
\* UTF-16 code units of the path
createEntryFromStats(path, objectId, stats) ==
  [ctime |-> timestampToFileTime(stats.ctime),
   mtime |-> timestampToFileTime(stats.mtime),
   dev |-> stats.dev, ino |-> stats.ino, mode |-> stats.mode,
   uid |-> stats.uid, gid |-> stats.gid, size |-> stats.size,
   objectId |-> objectId,
   flags |-> createFlags(Len(path), 0, FALSE),
   path |-> path]

\* Index.calculatePaddedSize
calculatePaddedSize(pathLength) ==
  ((FIXED_SIZE + pathLength + 1 + ALIGNMENT - 1) \div ALIGNMENT) * ALIGNMENT

\* Index.serializeHeader
serializeHeader(version, entryCount) ==
  INDEX_SIGNATURE \o UInt32BE(version) \o UInt32BE(entryCount)

\* Index.serializeEntry: a zeroed buffer of the padded size computed from
\* entry.path.length, the fixed fields, then the path written as UTF-8
serializeEntry(entry) ==
  LET paddedSize == calculatePaddedSize(Len(entry.path))
      fixed == UInt32BE(entry.ctime.seconds) \o UInt32BE(entry.ctime.nanoseconds)
                 \o UInt32BE(entry.mtime.seconds) \o UInt32BE(entry.mtime.nanoseconds)
                 \o UInt32BE(entry.dev) \o UInt32BE(entry.ino) \o UInt32BE(entry.mode)
                 \o UInt32BE(entry.uid) \o UInt32BE(entry.gid) \o UInt32BE(entry.size)
                 \o FromHex(entry.objectId)
                 \o [i \in 1..(20 - Len(FromHex(entry.objectId))) |-> NUL]
                 \o UInt16BE(entry.flags)
      name == BufferWrite(entry.path, paddedSize - FIXED_SIZE)
  IN  fixed \o name \o [i \in 1..(paddedSize - FIXED_SIZE - Len(name)) |-> NUL]

\* Index.serialize
Index_serialize(entries) ==
  LET sorted == Index_getAllEntries(entries)
      content == serializeHeader(INDEX_VERSION, Len(entries))
                   \o Concat([i \in 1..Len(sorted) |-> serializeEntry(sorted[i])])
  IN  content \o Sha1Digest(content)

\* Index.parseHeader
parseHeader(data) ==
  IF Len(data) < INDEX_HEADER_SIZE THEN Fail("TooShort")
  ELSE IF Slice(data, 0, 4) # INDEX_SIGNATURE THEN Fail("BadSignature")
  ELSE Ok([version |-> ReadUInt32BE(data, 4), entryCount |-> ReadUInt32BE(data, 8)])

\* Index.parseEntry(data, offset)
parseEntry(data, offset) ==
  LET pos == offset + FIXED_SIZE
      flags == ReadUInt16BE(data, offset + 60)
      nameLength == flags % (NAME_LENGTH_MASK + 1)
      nulAt == IndexOf(data, NUL, pos)
      pathEndPos == IF nameLength < NAME_LENGTH_MASK THEN pos + nameLength
                    ELSE IF nulAt = -1 THEN Len(data) ELSE nulAt
  IN  IF offset + FIXED_SIZE > Len(data) THEN Fail("EntryTruncated")
      ELSE IF pathEndPos > Len(data) THEN Fail("EntryTruncated")
      ELSE Ok([ctime |-> [seconds |-> ReadUInt32BE(data, offset),
                          nanoseconds |-> ReadUInt32BE(data, offset + 4)],
               mtime |-> [seconds |-> ReadUInt32BE(data, offset + 8),
                          nanoseconds |-> ReadUInt32BE(data, offset + 12)],
               dev |-> ReadUInt32BE(data, offset + 16),
               ino |-> ReadUInt32BE(data, offset + 20),
               mode |-> ReadUInt32BE(data, offset + 24),
               uid |-> ReadUInt32BE(data, offset + 28),
               gid |-> ReadUInt32BE(data, offset + 32),
               size |-> ReadUInt32BE(data, offset + 36),
               objectId |-> ToHex(Slice(data, offset + 40, offset + 60)),
               flags |-> flags,
               path |-> Utf8Decode(Slice(data, pos, pathEndPos))])

\* The entry loop of Index.deserialize: the next entry starts after the
\* padded size computed from the length of the decoded path
RECURSIVE parseEntries(_, _, _, _, _)
parseEntries(contentData, offset, i, entryCount, entries) ==
  IF i >= entryCount THEN Ok(entries)
  ELSE IF offset >= Len(contentData) THEN Fail("EntryTruncated")
  ELSE LET entry == parseEntry(contentData, offset)
       IN  IF ~entry.ok THEN entry
           ELSE parseEntries(contentData,
                             offset + calculatePaddedSize(Len(entry.obj.path)),
                             i + 1, entryCount, MapSet(entries, entry.obj))

\* A deserialize that looks at the signature before the checksum.
Index_deserialize_SignatureFirst(data) ==
  LET contentData == Slice(data, 0, Len(data) - INDEX_CHECKSUM_SIZE)
      header == parseHeader(contentData)
  IN  IF Len(data) < INDEX_HEADER_SIZE + INDEX_CHECKSUM_SIZE THEN Fail("TooShort")
      ELSE IF ~header.ok THEN header
      ELSE IF Slice(data, Len(data) - INDEX_CHECKSUM_SIZE, Len(data)) # Sha1Digest(contentData)
        THEN Fail("ChecksumMismatch")
      ELSE parseEntries(contentData, INDEX_HEADER_SIZE, 0, header.obj.entryCount, <<>>)

\* Index.deserialize: size, checksum, header, entries, in this order
Index_deserialize(data) ==
  LET contentData == Slice(data, 0, Len(data) - INDEX_CHECKSUM_SIZE)
      expectedChecksum == Slice(data, Len(data) - INDEX_CHECKSUM_SIZE, Len(data))
      header == parseHeader(contentData)
  IN  IF Len(data) < INDEX_HEADER_SIZE + INDEX_CHECKSUM_SIZE THEN Fail("TooShort")
      ELSE IF expectedChecksum # Sha1Digest(contentData) THEN Fail("ChecksumMismatch")
      ELSE IF ~header.ok THEN header
      ELSE parseEntries(contentData, INDEX_HEADER_SIZE, 0, header.obj.entryCount, <<>>)

\* Index.fromFile: a missing file gives a new, empty Index
Index_fromFile(file) == IF file = <<>> THEN Ok(<<>>) ELSE Index_deserialize(file)

MaxEntries == 2

HashA == HexName(97)

HashB == [i \in 1..40 |-> IF i % 2 = 1 THEN 48 ELSE 102]

StatsA == [ctime |-> 1500, mtime |-> 2000, dev |-> 1, ino |-> 2, mode |-> 33188,
           uid |-> 1000, gid |-> 1000, size |-> 2]

StatsB == [ctime |-> 0, mtime |-> 70000, dev |-> 66306, ino |-> 300, mode |-> 33261,
           uid |-> 0, gid |-> 0, size |-> 256]

\* What `add` stages: path, blob hash, fs.Stats.  Paths: "a", "b/c", "\u00e9".
IndexInputs ==
  {<<(<<97>>), HashA, StatsA>>, <<(<<97>>), HashB, StatsB>>,
   <<(<<98, SLASH, 99>>), HashA, StatsB>>, <<(<<233>>), HashA, StatsA>>}

\* Values a byte of the index file is changed to.
AlteredValues == {0, 68, 255}

\* IndexRepository.read: a command starts by loading the index file
IndexRead ==
  /\ ~running
  /\ \E r \in {Index_fromFile(indexFile)} :
         /\ loaded' = [done |-> TRUE, ok |-> r.ok, err |-> r.err,
                        entries |-> IF r.ok THEN r.obj ELSE <<>>]
         /\ running' = r.ok
         /\ index' = IF r.ok THEN r.obj ELSE <<>>
  /\ UNCHANGED <<storeVars, codec, buildVars, indexFile, saved, altered>>

\* IndexRepository.add(filepath, sha, stats)
IndexAdd(path, sha, stats) ==
  /\ running
  /\ Len(MapSet(index, createEntryFromStats(path, sha, stats))) <= MaxEntries
  /\ index' = MapSet(index, createEntryFromStats(path, sha, stats))
  /\ UNCHANGED <<storeVars, codec, buildVars, running, indexFile, saved, altered, loaded>>

\* IndexRepository.remove(filepath)
IndexRemove(path) ==
  /\ running
  /\ \E i \in 1..Len(index) : index[i].path = path
  /\ index' = MapDelete(index, path)
  /\ UNCHANGED <<storeVars, codec, buildVars, running, indexFile, saved, altered, loaded>>

\* IndexRepository.write: Index.toFile, after which the command ends
IndexWrite ==
  /\ running
  /\ indexFile' = Index_serialize(index)
  /\ saved' = index
  /\ altered' = FALSE
  /\ loaded' = NotLoaded
  /\ running' = FALSE
  /\ index' = <<>>
  /\ UNCHANGED <<storeVars, codec, buildVars>>

\* One byte of the index file is changed while no command runs.
IndexAlter(pos, value) ==
  /\ ~running
  /\ ~altered
  /\ pos \in 1..Len(indexFile)
  /\ indexFile[pos] # value
  /\ indexFile' = [indexFile EXCEPT ![pos] = value]
  /\ altered' = TRUE
  /\ loaded' = NotLoaded
  /\ UNCHANGED <<storeVars, codec, buildVars, index, running, saved>>

NextIndex ==
  \/ IndexRead
  \/ \E input \in IndexInputs : IndexAdd(input[1], input[2], input[3])
  \/ \E input \in IndexInputs : IndexRemove(input[1])
  \/ IndexWrite
  \/ \E pos \in 1..Len(indexFile), value \in AlteredValues : IndexAlter(pos, value)

SpecIndex == Init /\ [][NextIndex]_vars

\* C7: reading back an index file that was written yields exactly the
\* entries the Index held, each equal to the original in every field.
C7_IndexRoundTrip ==
  (loaded.done /\ ~altered /\ indexFile # <<>>)
    => /\ loaded.ok
       /\ Index_getAllEntries(loaded.entries) = Index_getAllEntries(saved)

\* The part of C7 that holds: entry sets whose paths are ASCII.
AsciiPaths(entries) ==
  \A i \in 1..Len(entries) : \A k \in 1..Len(entries[i].path) : entries[i].path[k] < 128

C7_AsciiRoundTrip == AsciiPaths(saved) => C7_IndexRoundTrip

\* C8: an index file in which one byte was changed, at any position, is
\* refused by deserialize with ChecksumMismatch and with no other outcome.
C8_AlteredByteIsChecksumMismatch ==
  (altered /\ loaded.done) => (~loaded.ok /\ loaded.err = "ChecksumMismatch")

C8_Witness ==
  /\ altered /\ loaded.done /\ loaded.err = "ChecksumMismatch"
  /\ Len(saved) = 2
  /\ indexFile[1] # INDEX_SIGNATURE[1]

EntrySet(entries) == {entries[i] : i \in 1..Len(entries)}

PathsOf(entries) == {entries[i].path : i \in 1..Len(entries)}

\* C16: the Index holds one entry per path, after every add and remove and
\* after every accepted deserialize: an add for a path already held replaces
\* its entry, an add for a new path adds one, a remove takes the entry of
\* its path away, and the entry count in the header written by serialize is
\* the number of distinct paths held.
C16_OneEntryPerPath ==
  /\ [](/\ Cardinality(PathsOf(index)) = Len(index)
        /\ loaded.ok => Cardinality(PathsOf(loaded.entries)) = Len(loaded.entries)
        /\ running => ReadUInt32BE(Index_serialize(index), 8) = Cardinality(PathsOf(index)))
  /\ [][(running /\ running' /\ index' # index)
          => \/ \E i \in 1..Len(index') :
                  /\ index'[i] \notin EntrySet(index)
                  /\ PathsOf(index') = PathsOf(index) \cup {index'[i].path}
                  /\ \A j \in 1..Len(index') :
                       j # i => index'[j].path # index'[i].path /\ index'[j] \in EntrySet(index)
             \/ \E i \in 1..Len(index) :
                  /\ PathsOf(index') = PathsOf(index) \ {index[i].path}
                  /\ EntrySet(index') = EntrySet(index) \ {index[i]}]_vars

\* the file read held "a" with one content; the Index now holds "a" with
\* another content, and still two entries
C16_Witness ==
  /\ running /\ loaded.ok
  /\ Len(loaded.entries) = 2 /\ Len(index) = 2
  /\ \E i, j \in 1..2 : /\ loaded.entries[i].path = <<97>>
                        /\ index[j].path = <<97>>
                        /\ loaded.entries[i].objectId = HashA
                        /\ index[j].objectId = HashB

----------------------------------------------------------------------------
(* The order of the entries: an index is filled and emptied in memory, with *)
(* paths inside and outside the Basic Multilingual Plane.                    *)

\* What is staged here: "a", "é", "～" (U+FF5E) and "😀" (U+1F600, the code
\* units D83D DE00), each with one of three contents.
OrderInputs ==
  {<<path, v[1], v[2]>> :
     path \in {<<97>>, <<233>>, <<65374>>, <<55357, 56832>>},
     v \in {<<HashA, StatsA>>, <<HashB, StatsB>>, <<HashA, StatsB>>}}

NextOrder ==
  \/ IndexRead
  \/ \E input \in OrderInputs : IndexAdd(input[1], input[2], input[3])
  \/ \E input \in OrderInputs : IndexRemove(input[1])

SpecOrder == Init /\ [][NextOrder]_vars

\* memcmp order of the encoded paths
BytePathLess(a, b) == StrLess(Utf8Encode(a.path), Utf8Encode(b.path))

\* C15: getAllEntries() returns the entries, and serialize() writes them, in
\* ascending byte order of the UTF-8 encoded paths, whatever the paths and
\* the order of the add and remove calls.
C15_EntriesInByteOrder ==
  running
  => /\ \A i \in 1..(Len(index) - 1) :
          BytePathLess(Index_getAllEntries(index)[i], Index_getAllEntries(index)[i + 1])
     /\ Slice(Index_serialize(index), INDEX_HEADER_SIZE,
              Len(Index_serialize(index)) - INDEX_CHECKSUM_SIZE)
          = Concat([i \in 1..Len(index) |->
                      serializeEntry(SortBy(index, BytePathLess)[i])])

\* C15 for paths whose characters are all in the Basic Multilingual Plane,
\* where the order of the code units is the order of the bytes.
C15_BmpEntriesInByteOrder ==
  (running /\ \A i \in 1..Len(index) : \A k \in 1..Len(index[i].path) :
                 ~IsHighSurrogate(index[i].path[k]) /\ ~IsLowSurrogate(index[i].path[k]))
  => \A i \in 1..(Len(index) - 1) :
        BytePathLess(Index_getAllEntries(index)[i], Index_getAllEntries(index)[i + 1])

(* The layout of the file: an Index that holds given entries, among them   *)
(* entries with long paths, is written and read back.                       *)

\* n times the letter "a"
LongName(n) == [i \in 1..n |-> 97]

\* Paths at the limit of the 12-bit length of the flags: 4095 and 4096
\* letters, and 4093 letters followed by "é" (4094 characters, 4095 bytes);
\* and the short paths "y", "zz" and "é".
LayoutPaths ==
  {LongName(NAME_LENGTH_MASK), LongName(NAME_LENGTH_MASK + 1),
   LongName(NAME_LENGTH_MASK - 2) \o <<233>>, <<121>>, <<122, 122>>, <<233>>}

LayoutEntries ==
  {createEntryFromStats(path, v[1], v[2]) :
     path \in LayoutPaths, v \in {<<HashA, StatsA>>, <<HashB, StatsB>>}}

\* An Index filled by two add calls for different paths.
LayoutInit ==
  /\ StoreInit /\ codec = CodecIdle /\ builds = <<>> /\ CommitInit
  /\ index \in {pair \in {<<a, b>> : a \in LayoutEntries, b \in LayoutEntries} :
                  pair[1].path # pair[2].path}
  /\ running = TRUE
  /\ indexFile = <<>>
  /\ saved = <<>>
  /\ altered = FALSE
  /\ loaded = NotLoaded

NextLayout ==
  \/ IndexWrite
  \/ IndexRead

SpecLayout == LayoutInit /\ [][NextLayout]_vars

IsLongPath(path) == Len(Utf8Encode(path)) >= NAME_LENGTH_MASK

\* C17: an index file that holds an entry with a path of 4095 bytes or more,
\* followed by further entries, is read back with every entry, each with
\* its complete path and all its fields.
C17_LongPathsRecovered ==
  (loaded.done /\ Len(saved) > 1 /\ IsLongPath(Index_getAllEntries(saved)[1].path))
  => /\ loaded.ok
     /\ Index_getAllEntries(loaded.entries) = Index_getAllEntries(saved)

\* C17 for ASCII paths, whose length in characters is their length in bytes.
C17_AsciiLongPathsRecovered == AsciiPaths(saved) => C17_LongPathsRecovered

\* 62 + L + 1 rounded up to the next multiple of 8
AlignedEntrySize(L) == ((FIXED_SIZE + L + 1 + ALIGNMENT - 1) \div ALIGNMENT) * ALIGNMENT

RECURSIVE AlignedSizeSum(_, _)
AlignedSizeSum(entries, i) ==
  IF i > Len(entries) THEN 0
  ELSE AlignedEntrySize(Len(Utf8Encode(entries[i].path))) + AlignedSizeSum(entries, i + 1)

\* C18: in a written index file every entry occupies 62 + L + 1 bytes
\* rounded up to a multiple of 8, L being the number of bytes of the encoded
\* path: the L path bytes are all there and a NUL follows them.
C18_EntrySizeFromPathBytes ==
  (indexFile # <<>> /\ ~altered)
  => /\ \A i \in 1..Len(saved) :
          /\ Len(serializeEntry(saved[i])) = AlignedEntrySize(Len(Utf8Encode(saved[i].path)))
          /\ Len(serializeEntry(saved[i])) % ALIGNMENT = 0
          /\ Slice(serializeEntry(saved[i]), FIXED_SIZE,
                   FIXED_SIZE + Len(Utf8Encode(saved[i].path))) = Utf8Encode(saved[i].path)
          /\ Len(serializeEntry(saved[i])) > FIXED_SIZE + Len(Utf8Encode(saved[i].path))
          /\ serializeEntry(saved[i])[FIXED_SIZE + Len(Utf8Encode(saved[i].path)) + 1] = NUL
     /\ Len(indexFile) = INDEX_HEADER_SIZE + AlignedSizeSum(saved, 1) + INDEX_CHECKSUM_SIZE

\* C18 for ASCII paths.
C18_AsciiEntrySize == AsciiPaths(saved) => C18_EntrySizeFromPathBytes

(* Truncated index files: the end of the content of a written file is cut  *)
(* off and the checksum is computed again over what is left.                *)

MaxCut == 70

\* What is staged here: "a" (an entry of 64 bytes, the NUL being its last
\* byte) and "b/c" (72 bytes, six of them padding).
TruncateInputs ==
  {<<(<<97>>), HashA, StatsA>>, <<(<<98, SLASH, 99>>), HashB, StatsB>>}

\* The last n bytes before the checksum are removed from the index file; the
\* header, with its entry count, stays, and the checksum is made valid.
IndexTruncate(n) ==
  /\ ~running
  /\ ~altered
  /\ Len(indexFile) - INDEX_CHECKSUM_SIZE - n >= INDEX_HEADER_SIZE
  /\ \E contentData \in {SubSeq(indexFile, 1, Len(indexFile) - INDEX_CHECKSUM_SIZE - n)} :
        indexFile' = contentData \o Sha1Digest(contentData)
  /\ altered' = TRUE
  /\ loaded' = NotLoaded
  /\ UNCHANGED <<storeVars, codec, buildVars, index, running, saved>>

NextTruncate ==
  \/ IndexRead
  \/ \E input \in TruncateInputs : IndexAdd(input[1], input[2], input[3])
  \/ IndexWrite
  \/ \E n \in 1..MaxCut : IndexTruncate(n)

SpecTruncate == Init /\ [][NextTruncate]_vars

\* The file carries a valid checksum and signature and declares the entries
\* that were written, but its content ends before the end of the last of
\* them (fixed bytes, path, NUL and padding).
DeclaredEntriesCutShort ==
  /\ Len(indexFile) >= INDEX_HEADER_SIZE + INDEX_CHECKSUM_SIZE
  /\ Slice(indexFile, Len(indexFile) - INDEX_CHECKSUM_SIZE, Len(indexFile))
       = Sha1Digest(Slice(indexFile, 0, Len(indexFile) - INDEX_CHECKSUM_SIZE))
  /\ Slice(indexFile, 0, 4) = INDEX_SIGNATURE
  /\ ReadUInt32BE(indexFile, 8) = Len(saved)
  /\ Len(indexFile) - INDEX_CHECKSUM_SIZE < INDEX_HEADER_SIZE + AlignedSizeSum(saved, 1)

\* C19: deserialize refuses with EntryTruncated every file with a valid
\* checksum and signature in which a declared entry (fixed bytes, path, NUL
\* or padding) would extend past the end of the content; it never returns an
\* Index for such a file.
C19_CutShortIsEntryTruncated ==
  (loaded.done /\ DeclaredEntriesCutShort)
  => (~loaded.ok /\ loaded.err = "EntryTruncated")

\* C19 for files cut inside the fixed bytes or the path of the last entry.
C19_CutInsideFieldsOrPath ==
  (Len(saved) > 0
     /\ Len(indexFile) - INDEX_CHECKSUM_SIZE
          < INDEX_HEADER_SIZE + AlignedSizeSum(saved, 1)
              - AlignedEntrySize(Len(Utf8Encode(Index_getAllEntries(saved)[Len(saved)].path)))
              + FIXED_SIZE + Len(Utf8Encode(Index_getAllEntries(saved)[Len(saved)].path)))
  => C19_CutShortIsEntryTruncated

----------------------------------------------------------------------------
(* Tree builder (CommitService.buildTreeFromIndex): from the entries of the *)
(* index to a hierarchy of Tree objects written to the object store.        *)

\* entry.path.split("/").filter(part => part.length > 0)
PathParts(path) ==
  LET parts == Split(path, SLASH)
      keep == {i \in 1..Len(parts) : Len(parts[i]) > 0}
  IN  [k \in 1..Cardinality(keep) |->
         parts[CHOOSE i \in keep : Cardinality({j \in keep : j < i}) = k - 1]]

\* TreeNode; children is the Map of the node, kept as the sequence of its
\* values in insertion order (the key of a child is its name).
DirectoryNode(name) == [name |-> name, children |-> <<>>, type |-> "directory",
                        entry |-> <<>>]

FileNode(name, entry) == [name |-> name, children |-> <<>>, type |-> "file",
                          entry |-> <<entry>>]

HasChild(node, name) == \E i \in 1..Len(node.children) : node.children[i].name = name

GetChild(node, name) ==
  node.children[CHOOSE i \in 1..Len(node.children) : node.children[i].name = name]

\* children.set(child.name, child)
SetChild(node, child) ==
  [node EXCEPT !.children =
     IF HasChild(node, child.name)
       THEN [i \in 1..Len(node.children) |->
               IF node.children[i].name = child.name THEN child ELSE node.children[i]]
       ELSE Append(node.children, child)]

\* The inner loop of buildDirectoryTree from part i on: the last part sets
\* a file node; any other part creates a directory node if no child has the
\* name and goes down into the child that has it, whatever its type.
RECURSIVE InsertEntry(_, _, _, _)
InsertEntry(currentNode, pathParts, i, entry) ==
  IF i > Len(pathParts) THEN currentNode
  ELSE IF i = Len(pathParts)
    THEN SetChild(currentNode, FileNode(pathParts[i], entry))
  ELSE LET nextNode == IF HasChild(currentNode, pathParts[i])
                         THEN GetChild(currentNode, pathParts[i])
                         ELSE DirectoryNode(pathParts[i])
       IN  SetChild(currentNode, InsertEntry(nextNode, pathParts, i + 1, entry))

RECURSIVE InsertEntries(_, _, _)
InsertEntries(root, entries, k) ==
  IF k > Len(entries) THEN root
  ELSE InsertEntries(InsertEntry(root, PathParts(entries[k].path), 1, entries[k]),
                     entries, k + 1)

\* CommitService.buildDirectoryTree
buildDirectoryTree(entries) == InsertEntries(DirectoryNode(<<>>), entries, 1)

RECURSIVE NatToOctal(_)
NatToOctal(n) == IF n < 8 THEN <<48 + n>> ELSE NatToOctal(n \div 8) \o <<48 + (n % 8)>>

\* CommitService.formatFileMode
formatFileMode(mode) ==
  IF (mode \div 32768) % 2 = 1
    THEN IF mode % 2 = 1 \/ (mode \div 8) % 2 = 1 \/ (mode \div 64) % 2 = 1
           THEN STR_100755 ELSE STR_100644
    ELSE LET text == NatToOctal(mode)
         IN  [i \in 1..(6 - Len(text)) |-> 48] \o text

NodeNameLess(a, b) == StrLess(a.name, b.name)

\* CommitService.createTreeObject: the hash of the Tree of the node and the
\* Tree objects written on the way, children first
RECURSIVE createTreeObject(_)

\* the loop body: a file child gives its blob, a directory child its tree
ChildResults(sortedChildren) ==
  SubSeq([i \in 1..Len(sortedChildren) |->
            IF sortedChildren[i].type = "file" /\ sortedChildren[i].entry # <<>>
              THEN [sha |-> sortedChildren[i].entry[1].objectId, written |-> <<>>]
              ELSE createTreeObject(sortedChildren[i])],
         1, Len(sortedChildren))

TreeEntriesOf(sortedChildren, sub) ==
  SubSeq([i \in 1..Len(sortedChildren) |->
            [mode |-> IF sortedChildren[i].type = "file" /\ sortedChildren[i].entry # <<>>
                        THEN formatFileMode(sortedChildren[i].entry[1].mode)
                        ELSE STR_040000,
             name |-> sortedChildren[i].name,
             sha |-> sub[i].sha]],
         1, Len(sortedChildren))

\* A writer that saves a tree before the trees of its subdirectories.
WrittenTree_ParentFirst(tree, sub) ==
  [sha |-> getSha(tree, 0),
   written |-> <<tree>> \o Concat([i \in 1..Len(sub) |-> sub[i].written])]

\* new Tree(treeEntries), objectRepo.write(tree)
WrittenTree(tree, sub) ==
  [sha |-> getSha(tree, 0),
   written |-> Concat([i \in 1..Len(sub) |-> sub[i].written]) \o <<tree>>]

TreeOfChildren(sortedChildren, sub) ==
  WrittenTree(Tree(TreeEntriesOf(sortedChildren, sub)), sub)

TreeOfSorted(sortedChildren) ==
  TreeOfChildren(sortedChildren, ChildResults(sortedChildren))

createTreeObject(node) == TreeOfSorted(SortBy(node.children, NodeNameLess))

\* The file system after undisturbed write() calls for the objects objs[k..]
\* (objectRepository.ts 84-108): an object whose file exists is skipped.
RECURSIVE WriteAll(_, _, _)
WriteAll(fs, objs, k) ==
  IF k > Len(objs) THEN fs
  ELSE LET data == GitObject_serialize(objs[k], 0)
           path == getObjectPath(Sha1Hex(data))
       IN  IF path \in DOMAIN fs.fsys THEN WriteAll(fs, objs, k + 1)
           ELSE WriteAll([dirs |-> fs.dirs \cup {path.dir},
                          inodes |-> Append(fs.inodes, deflate(data)),
                          fsys |-> [q \in DOMAIN fs.fsys \cup {path} |->
                                      IF q = path THEN Len(fs.inodes) + 1
                                      ELSE fs.fsys[q]]],
                         objs, k + 1)

MaxBuilds == 2

\* What `add` stages here: "a", "a/b", "d/b" and "d//b".
TreeInputs ==
  {<<(<<97>>), HashA, StatsA>>, <<(<<97, SLASH, 98>>), HashB, StatsB>>,
   <<(<<100, SLASH, 98>>), HashA, StatsB>>, <<(<<100, SLASH, SLASH, 98>>), HashB, StatsA>>}

\* CommitService.execute up to buildTreeFromIndex: the entries of the
\* index, sorted by getAllEntries, are turned into Tree objects; an empty
\* index is refused before anything is built.
BuildTreeFromIndex ==
  /\ running
  /\ Len(index) > 0
  /\ Len(builds) < MaxBuilds
  /\ \E built \in {createTreeObject(buildDirectoryTree(Index_getAllEntries(index)))} :
       /\ \E fs \in {WriteAll([dirs |-> dirs, fsys |-> fsys, inodes |-> inodes],
                               built.written, 1)} :
             dirs' = fs.dirs /\ fsys' = fs.fsys /\ inodes' = fs.inodes
       /\ builds' = Append(builds, [entries |-> index, root |-> built.sha,
                                    written |-> Len(built.written)])
  /\ UNCHANGED <<now, calls, lastRead, damaged, codec, indexVars, commitVars, serviceVars>>

NextTree ==
  \/ IndexRead
  \/ \E input \in TreeInputs : IndexAdd(input[1], input[2], input[3])
  \/ \E input \in TreeInputs : IndexRemove(input[1])
  \/ BuildTreeFromIndex

SpecTree == Init /\ [][NextTree]_vars

\* C9: two builds from the same set of index entries, inserted into the
\* index in any order, give the same root tree hash.
C9_SameEntriesSameRoot ==
  \A i \in 1..Len(builds), j \in 1..Len(builds) :
     EntrySet(builds[i].entries) = EntrySet(builds[j].entries)
       => builds[i].root = builds[j].root

\* two builds from the same entries, among them "d/b" and "d//b", inserted
\* in different orders
C9_Witness ==
  \E i \in 1..Len(builds), j \in 1..Len(builds) :
     /\ EntrySet(builds[i].entries) = EntrySet(builds[j].entries)
     /\ builds[i].entries # builds[j].entries
     /\ \E e \in EntrySet(builds[i].entries) : e.path = <<100, SLASH, SLASH, 98>>
     /\ \E e \in EntrySet(builds[i].entries) : e.path = <<100, SLASH, 98>>
     /\ builds[i].root = builds[j].root

\* The entries of the Tree object stored under sha.
StoredTree(sha) ==
  GitObject_deserialize(inflate(FileContent(getObjectPath(sha))).obj).obj.entries

\* The files of the hierarchy under the tree sha: <<path parts, mode, hash>>,
\* found by following the entries of mode 040000.
RECURSIVE TreeFiles(_, _)
TreeFiles(sha, prefix) ==
  LET es == StoredTree(sha)
  IN  UNION {IF es[i].mode = STR_040000
               THEN TreeFiles(es[i].sha, Append(prefix, es[i].name))
               ELSE {<<Append(prefix, es[i].name), es[i].mode, es[i].sha>>} :
             i \in 1..Len(es)}

\* The number of entries in all the trees of the hierarchy that are files.
RECURSIVE TreeFileCount(_)
TreeFileCount(sha) ==
  LET es == StoredTree(sha)
      count == [i \in 1..Len(es) |->
                  IF es[i].mode = STR_040000 THEN TreeFileCount(es[i].sha) ELSE 1]
      sum[i \in 0..Len(es)] == IF i = 0 THEN 0 ELSE sum[i - 1] + count[i]
  IN  sum[Len(es)]

PlainPath(path) == Split(path, SLASH) = PathParts(path)

\* C10: the hierarchy built holds every staged entry exactly once, at its
\* own path and with its hash, and nothing else (paths without empty parts).
C10_EveryEntryAtItsPath ==
  \A b \in 1..Len(builds) :
     (\A e \in EntrySet(builds[b].entries) : PlainPath(e.path))
       => /\ TreeFiles(builds[b].root, <<>>) =
               {<<PathParts(e.path), formatFileMode(e.mode), e.objectId>> :
                  e \in EntrySet(builds[b].entries)}
          /\ TreeFileCount(builds[b].root) = Len(builds[b].entries)

\* The part of C10 that holds: no staged path is a directory of another.
PathIsPrefix(p, q) == Len(p) < Len(q) /\ SubSeq(q, 1, Len(p)) = p

NoFileDirectoryClash(entries) ==
  \A e \in EntrySet(entries), f \in EntrySet(entries) :
     ~PathIsPrefix(PathParts(e.path), PathParts(f.path))

C10_WithoutClash ==
  \A b \in 1..Len(builds) :
     (/\ \A e \in EntrySet(builds[b].entries) : PlainPath(e.path)
      /\ NoFileDirectoryClash(builds[b].entries))
       => /\ TreeFiles(builds[b].root, <<>>) =
               {<<PathParts(e.path), formatFileMode(e.mode), e.objectId>> :
                  e \in EntrySet(builds[b].entries)}
          /\ TreeFileCount(builds[b].root) = Len(builds[b].entries)

(* The baseline builder (services/commitService.ts): one Tree that holds   *)
(* every entry under the last part of its path.                             *)

\* String.localeCompare(a, b) < 0: letters are compared without regard to
\* case first; between texts that differ in case only, the lower-case
\* letter comes first.
LocaleLess(a, b) ==
  IF ToLowerCase(a) # ToLowerCase(b) THEN StrLess(ToLowerCase(a), ToLowerCase(b))
  ELSE StrLess(b, a)

\* entry.path.split("/").pop()
LastPart(path) == Split(path, SLASH)[Len(Split(path, SLASH))]

FlatNameLess(a, b) == LocaleLess(a.name, b.name)

\* the baseline buildTreeFromIndex: the Tree it hands to objectRepo.write
Flat_buildTreeFromIndex(entries) ==
  Tree(SortBy([i \in 1..Len(entries) |->
                 [mode |-> formatFileMode(entries[i].mode),
                  name |-> LastPart(entries[i].path),
                  sha |-> entries[i].objectId]],
              FlatNameLess))

\* What is staged here: "a", "B" and "a.b", each with one of two contents.
FlatInputs ==
  {<<path, v[1], v[2]>> :
     path \in {<<97>>, <<66>>, <<97, 46, 98>>},
     v \in {<<HashA, StatsA>>, <<HashB, StatsB>>}}

NextFlat ==
  \/ IndexRead
  \/ \E input \in FlatInputs : IndexAdd(input[1], input[2], input[3])
  \/ BuildTreeFromIndex

SpecFlat == Init /\ [][NextFlat]_vars

NoSlash(entries) ==
  \A i \in 1..Len(entries) : \A k \in 1..Len(entries[i].path) : entries[i].path[k] # SLASH

\* C21: for index entries whose paths hold no "/", the hierarchical builder
\* writes exactly one Tree, and the bytes stored for the root and its hash
\* are those of the Tree the baseline builder makes from the same entries.
C21_FlatEntriesSameAsBaseline ==
  \A b \in 1..Len(builds) :
     NoSlash(builds[b].entries)
       => /\ builds[b].written = 1
          /\ builds[b].root
               = getSha(Flat_buildTreeFromIndex(Index_getAllEntries(builds[b].entries)), 0)
          /\ FileExists(getObjectPath(builds[b].root))
          /\ inflate(FileContent(getObjectPath(builds[b].root))).obj
               = GitObject_serialize(
                   Flat_buildTreeFromIndex(Index_getAllEntries(builds[b].entries)), 0)

\* a tree was built from "a" and "B", which the two builders order differently
C21_Witness ==
  \E b \in 1..Len(builds) :
     /\ Len(builds[b].entries) = 2
     /\ PathsOf(builds[b].entries) = {<<97>>, <<66>>}
     /\ builds[b].written = 1

(* File modes: a tree is built from an index file that holds entries of     *)
(* several kinds (the index format stores the mode of regular files,        *)
(* symbolic links and gitlinks alike).                                      *)

\* 0100644, 0100755, 0100010 (only the group may execute), 0120000 (symbolic
\* link), 0160000 (gitlink), 0040000 (directory)
ModeInputs == {33188, 33261, 32776, 40960, 57344, 16384}

ModeEntry(path, mode) == createEntryFromStats(path, HashA, [StatsA EXCEPT !.mode = mode])

\* The index file holds the paths "a" and "b", each with one of the modes.
ModeInit ==
  /\ StoreInit /\ codec = CodecIdle /\ builds = <<>> /\ CommitInit
  /\ index = <<>>
  /\ running = FALSE
  /\ indexFile \in {Index_serialize(<<ModeEntry(<<97>>, m1), ModeEntry(<<98>>, m2)>>) :
                      m1 \in ModeInputs, m2 \in ModeInputs}
  /\ saved = <<>>
  /\ altered = FALSE
  /\ loaded = NotLoaded

NextMode ==
  \/ IndexRead
  \/ BuildTreeFromIndex

SpecMode == ModeInit /\ [][NextMode]_vars

\* S_IFMT bits equal to S_IFREG
IsRegularFile(mode) == (mode \div 4096) % 16 = 8

\* one of the bits 0111 is set
IsExecutable(mode) == mode % 2 = 1 \/ (mode \div 8) % 2 = 1 \/ (mode \div 64) % 2 = 1

\* the mode text stored in the root tree of build b for the entry named name
StoredMode(b, name) ==
  LET es == StoredTree(builds[b].root)
  IN  es[CHOOSE i \in 1..Len(es) : es[i].name = name].mode

\* C22: the tree holds the mode "100644" or "100755" for an entry exactly
\* when the mode of the entry is that of a regular file, "100755" when an
\* executable bit is set and "100644" otherwise.
C22_RegularFileModes ==
  \A b \in 1..Len(builds) : \A e \in EntrySet(builds[b].entries) :
     /\ StoredMode(b, e.path) \in {STR_100644, STR_100755} <=> IsRegularFile(e.mode)
     /\ IsRegularFile(e.mode)
          => (StoredMode(b, e.path) = STR_100755 <=> IsExecutable(e.mode))

\* C22 for the entries of regular files.
C22_OfRegularFiles ==
  \A b \in 1..Len(builds) : \A e \in EntrySet(builds[b].entries) :
     IsRegularFile(e.mode)
       => StoredMode(b, e.path) = IF IsExecutable(e.mode) THEN STR_100755 ELSE STR_100644

----------------------------------------------------------------------------
(* The add command (class AddService)                                       *)

\* What the working tree holds at a path: a readable regular file, a regular
\* file without read permission, a directory, or nothing.
NoFile == [kind |-> "none", content |-> <<>>]

Found(tree, path) == IF path \in DOMAIN tree THEN tree[path] ELSE NoFile

\* AddService.fileExists: access() and stat().isFile() on the path
fileExists(tree, path) == Found(tree, path).kind \in {"file", "locked"}

\* IndexRepository.getEntry(filepath) !== undefined
inIndex(entries, path) == \E i \in 1..Len(entries) : entries[i].path = path

\* fs.stat of a regular file of the working tree
StatsOf(content) == [StatsA EXCEPT !.size = Len(content)]

\* AddService.processFile: the result for one path, or the error thrown.
\* readFile fails on a file without read permission.
processFile(file, entries, tree) ==
  IF ~fileExists(tree, file) /\ ~inIndex(entries, file) THEN Fail("pathspec")
  ELSE IF ~fileExists(tree, file)
    THEN Ok([filePath |-> file, operation |-> "delete", sha |-> <<>>,
             stats |-> StatsA, blob |-> <<>>])
  ELSE IF Found(tree, file).kind = "locked" THEN Fail("read")
  ELSE LET blob == Blob(Found(tree, file).content)
       IN  Ok([filePath |-> file,
               operation |-> IF inIndex(entries, file) THEN "update" ELSE "add",
               sha |-> Sha1Hex(GitObject_serialize(blob, 0)),
               stats |-> StatsOf(Found(tree, file).content),
               blob |-> <<blob>>])

\* The loop of AddService.execute over files[k..]: the results gathered so
\* far and the blobs written so far, until a path fails.
RECURSIVE ProcessFiles(_, _, _, _, _, _)
ProcessFiles(files, k, entries, tree, results, blobs) ==
  IF k > Len(files) THEN [ok |-> TRUE, err |-> "none", results |-> results, blobs |-> blobs]
  ELSE LET r == processFile(files[k], entries, tree)
       IN  IF ~r.ok THEN [ok |-> FALSE, err |-> r.err, results |-> results, blobs |-> blobs]
           ELSE ProcessFiles(files, k + 1, entries, tree, Append(results, r.obj),
                             blobs \o r.obj.blob)

\* AddService.updateIndexFromResults before indexRepo.write(): the entries
\* after the results [k..] are applied in order.
RECURSIVE ApplyResults(_, _, _)
ApplyResults(entries, results, k) ==
  IF k > Len(results) THEN entries
  ELSE ApplyResults(IF results[k].operation = "delete"
                      THEN MapDelete(entries, results[k].filePath)
                      ELSE MapSet(entries, createEntryFromStats(results[k].filePath,
                                                                results[k].sha,
                                                                results[k].stats)),
                    results, k + 1)

\* AddService.execute after the loop: the index file is written only when
\* every path was processed; `file` is the index file as it was found.
updateIndexFromResults(processed, entries, file) ==
  IF processed.ok THEN Index_serialize(ApplyResults(entries, processed.results, 1))
  ELSE file

\* Paths of the working tree: "a" and "b"; "c" is never there.
WorkPaths == {<<97>>, <<98>>}

\* What the user puts at a path: "a" is a file, readable or not, or absent;
\* "b" is a file, a directory or absent.
WorkInputs ==
  {<<(<<97>>), [kind |-> "file", content |-> <<120>>]>>,
   <<(<<97>>), [kind |-> "file", content |-> <<121, 121>>]>>,
   <<(<<97>>), [kind |-> "locked", content |-> <<120>>]>>,
   <<(<<97>>), NoFile>>,
   <<(<<98>>), [kind |-> "file", content |-> <<120>>]>>,
   <<(<<98>>), [kind |-> "dir", content |-> <<>>]>>,
   <<(<<98>>), NoFile>>}

\* The arguments of an invocation: one path, or two different paths.
AddArguments ==
  LET paths == WorkPaths \cup {<<99>>}
  IN  {<<p>> : p \in paths} \cup {fs \in {<<p, q>> : p, q \in paths} : fs[1] # fs[2]}

KindsAt(files, tree) == [i \in 1..Len(files) |-> Found(tree, files[i]).kind]

\* The user changes the working tree between two commands.
WorkWrite(path, what) ==
  /\ ~running
  /\ Found(work, path) # what
  /\ work' = [q \in DOMAIN work \cup {path} |-> IF q = path THEN what ELSE work[q]]
  /\ UNCHANGED <<storeVars, codec, indexVars, builds, commitVars, lastAdd, lastLog>>

\* One invocation of `add files...`: AddService.create reads the index
\* file, execute processes every path and then updates and writes the index.
AddExecute(files) ==
  /\ ~running
  /\ \E r \in {Index_fromFile(indexFile)} :
       IF ~r.ok
         THEN /\ lastAdd' = [done |-> TRUE, files |-> files,
                             kinds |-> KindsAt(files, work), staged |-> {},
                             before |-> indexFile, ok |-> FALSE, err |-> r.err]
              /\ UNCHANGED <<dirs, fsys, inodes, indexFile>>
         ELSE \E processed \in {ProcessFiles(files, 1, r.obj, work, <<>>, <<>>)} :
                /\ \E fs \in {WriteAll([dirs |-> dirs, fsys |-> fsys, inodes |-> inodes],
                                        processed.blobs, 1)} :
                      dirs' = fs.dirs /\ fsys' = fs.fsys /\ inodes' = fs.inodes
                /\ indexFile' = updateIndexFromResults(processed, r.obj, indexFile)
                /\ lastAdd' = [done |-> TRUE, files |-> files,
                               kinds |-> KindsAt(files, work), staged |-> PathsOf(r.obj),
                               before |-> indexFile, ok |-> processed.ok,
                               err |-> processed.err]
  /\ UNCHANGED <<now, calls, lastRead, damaged, codec, index, running, saved, altered,
                 loaded, builds, commitVars, work, lastLog>>

NextAdd ==
  \/ \E input \in WorkInputs : WorkWrite(input[1], input[2])
  \/ \E files \in AddArguments : AddExecute(files)

SpecAdd == Init /\ [][NextAdd]_vars

\* A path of the latest add that matched neither a regular file of the
\* working tree nor an entry of the index file, as the invocation found them.
Unmatched(i) ==
  /\ lastAdd.kinds[i] \notin {"file", "locked"}
  /\ lastAdd.files[i] \notin lastAdd.staged

SomeUnmatched == \E i \in 1..Len(lastAdd.files) : Unmatched(i)

\* C23: an add invocation given a path that matches neither a regular file
\* nor an index entry fails with the pathspec error and leaves the index
\* file as it was.
C23_UnmatchedPathIsPathspecError ==
  lastAdd.done /\ SomeUnmatched
    => ~lastAdd.ok /\ lastAdd.err = "pathspec" /\ indexFile = lastAdd.before

\* The frame part of C23: such an invocation fails, whatever the error, and
\* the index file is as it was.
C23_UnmatchedPathKeepsIndexFile ==
  lastAdd.done /\ SomeUnmatched => ~lastAdd.ok /\ indexFile = lastAdd.before

\* An invocation failed on an unmatched path after another path of the same
\* invocation was processed, with entries staged before.
C23_Witness ==
  /\ lastAdd.done /\ Len(lastAdd.files) = 2
  /\ ~Unmatched(1) /\ Unmatched(2)
  /\ lastAdd.staged # {}

----------------------------------------------------------------------------
(* References (class ReferenceRepository) and the commit command            *)
(* (CommitService.execute)                                                  *)

\* String.prototype.trim: white space and line terminators
IsWhiteSpace(c) ==
  c \in {9, 10, 11, 12, 13, 32, 160, 5760, 8232, 8233, 8239, 8287, 12288, 65279}
    \cup (8192..8202)

TrimStart(s) ==
  IF \A i \in 1..Len(s) : IsWhiteSpace(s[i]) THEN <<>>
  ELSE Slice(s, (CHOOSE i \in 1..Len(s) :
                  ~IsWhiteSpace(s[i]) /\ \A j \in 1..(i - 1) : IsWhiteSpace(s[j])) - 1,
             Len(s))

TrimEnd(s) ==
  IF \A i \in 1..Len(s) : IsWhiteSpace(s[i]) THEN <<>>
  ELSE Slice(s, 0, CHOOSE i \in 1..Len(s) :
                     ~IsWhiteSpace(s[i]) /\ \A j \in (i + 1)..Len(s) : IsWhiteSpace(s[j]))

Trim(s) == TrimEnd(TrimStart(s))

RefOk(sha) == [ok |-> TRUE, sha |-> sha, err |-> "none"]

RefFail(code) == [ok |-> FALSE, sha |-> <<>>, err |-> code]

\* A resolveRef that takes the text of the file as it is.
resolveRefOf_NoTrim(files, refName) ==
  IF refName \notin DOMAIN files THEN RefFail("REF_NOT_FOUND")
  ELSE IF ~IsValidSha(files[refName]) THEN RefFail("INVALID_SHA")
  ELSE RefOk(files[refName])

\* ReferenceRepository.resolveRef
resolveRefOf(files, refName) ==
  IF refName \notin DOMAIN files THEN RefFail("REF_NOT_FOUND")
  ELSE IF ~IsValidSha(Trim(files[refName])) THEN RefFail("INVALID_SHA")
  ELSE RefOk(Trim(files[refName]))

resolveHeadOf(files, trimmedContent) ==
  IF IsValidSha(trimmedContent) THEN RefOk(trimmedContent)
  ELSE IF StartsWith(trimmedContent, STR_refPrefix)
    THEN resolveRefOf(files, Slice(trimmedContent, 5, Len(trimmedContent)))
  ELSE RefFail("INVALID_HEAD")

\* ReferenceRepository.resolveHead
resolveHead(files) ==
  IF STR_HEAD \notin DOMAIN files THEN RefFail("HEAD_NOT_FOUND")
  ELSE resolveHeadOf(files, Trim(files[STR_HEAD]))

\* ReferenceRepository.getCurrentBranch: <<name>>, or <<>> for a detached HEAD
getCurrentBranch(files) ==
  IF StartsWith(Trim(files[STR_HEAD]), STR_headsPrefix)
    THEN <<Slice(Trim(files[STR_HEAD]), 16, Len(Trim(files[STR_HEAD])))>>
  ELSE <<>>

\* fs.writeFile(path, text): the file is opened and emptied, then written;
\* when the write fails the file is left empty
WriteRefFile(files, path, text, fails) ==
  [p \in DOMAIN files \cup {path} |->
     IF p = path THEN (IF fails THEN <<>> ELSE text) ELSE files[p]]

\* ReferenceRepository.updateHead
updateHead(files, sha, fails) ==
  IF ~IsValidSha(sha) THEN [ok |-> FALSE, err |-> "INVALID_SHA", files |-> files]
  ELSE IF STR_HEAD \notin DOMAIN files THEN [ok |-> FALSE, err |-> "IO_ERROR", files |-> files]
  ELSE [ok |-> ~fails, err |-> IF fails THEN "IO_ERROR" ELSE "none",
        files |-> WriteRefFile(files,
                               IF getCurrentBranch(files) = <<>> THEN STR_HEAD
                               ELSE STR_refsHeads \o getCurrentBranch(files)[1],
                               sha \o <<LF>>, fails)]

\* ConfigRepository.getUserConfig: <<actor>>, or <<>> for undefined
getUserConfig(section, time) ==
  IF section.name # <<>> /\ section.email # <<>>
    THEN <<[name |-> Trim(section.name), email |-> Trim(section.email),
            timestamp |-> time]>>
  ELSE <<>>

\* How an execute call ends: the outcome, the object store and the
\* reference files it leaves.
Executed(ok, err, sha, fs, files) ==
  [ok |-> ok, err |-> err, sha |-> sha, fs |-> fs, files |-> files]

\* A variant that moves the head before the commit object is saved.
SaveAndUpdateHead_HeadFirst(commit, sha, fs, files, fault) ==
  IF fault = "commit"
    THEN Executed(FALSE, "CommitWriteFailed", <<>>, fs, updateHead(files, sha, FALSE).files)
  ELSE Executed(updateHead(files, sha, fault = "head").ok,
                updateHead(files, sha, fault = "head").err,
                sha, WriteAll(fs, <<commit>>, 1),
                updateHead(files, sha, fault = "head").files)

\* execute, steps 7 and 8: objectRepo.write(commit), then updateHead
SaveAndUpdateHead(commit, sha, fs, files, fault) ==
  IF fault = "commit" THEN Executed(FALSE, "CommitWriteFailed", <<>>, fs, files)
  ELSE Executed(updateHead(files, sha, fault = "head").ok,
                updateHead(files, sha, fault = "head").err,
                sha, WriteAll(fs, <<commit>>, 1),
                updateHead(files, sha, fault = "head").files)

\* execute, steps 5 and 6: the user configuration and the Commit object
CommitAs(userConfig, rootTreeSha, parent, message, fs, files, fault) ==
  IF userConfig = <<>> \/ userConfig[1].name = <<>> \/ userConfig[1].email = <<>>
    THEN Executed(FALSE, "UserNotConfigured", <<>>, fs, files)
  ELSE SaveAndUpdateHead(
         Commit(rootTreeSha, IF parent.ok THEN <<parent.sha>> ELSE <<>>,
                userConfig[1], userConfig[1], message),
         getSha(Commit(rootTreeSha, IF parent.ok THEN <<parent.sha>> ELSE <<>>,
                       userConfig[1], userConfig[1], message), 0),
         fs, files, fault)

\* execute, steps 3 and 4: the tree objects are written, children first, and
\* the parent is what HEAD resolves to, or none when it does not resolve
CommitTree(built, message, section, time, fs, files, fault) ==
  IF fault = "tree"
    THEN Executed(FALSE, "TreeWriteFailed", <<>>,
                  WriteAll(fs, SubSeq(built.written, 1, Len(built.written) - 1), 1),
                  files)
  ELSE CommitAs(getUserConfig(section, time), built.sha, resolveHead(files), message,
                WriteAll(fs, built.written, 1), files, fault)

\* A message check that only refuses the empty string.
IsBlankMessage_EmptyOnly(message) == message = <<>>

\* !message.trim()
IsBlankMessage(message) == Trim(message) = <<>>

\* CommitService.execute(message) on the entries of the index
execute(message, entries, section, time, fs, files, fault) ==
  IF IsBlankMessage(message) THEN Executed(FALSE, "EmptyMessage", <<>>, fs, files)
  ELSE IF Len(entries) = 0 THEN Executed(FALSE, "NoStagedFiles", <<>>, fs, files)
  ELSE CommitTree(createTreeObject(buildDirectoryTree(entries)), message, section,
                  time, fs, files, fault)

MaxCommits == 3

\* What is staged before a commit: "a" and "d/b".
CommitInputs ==
  {<<(<<97>>), HashA, StatsA>>, <<(<<100, SLASH, 98>>), HashB, StatsB>>}

CommitMessages == {<<>>, <<SP, LF>>, <<109>>}

\* Where an input/output error strikes a call, if anywhere.
CommitFaults == {"none", "tree", "commit", "head"}

ConfigSections ==
  {[name |-> n, email |-> e] : n \in {<<>>, <<SP>>, <<65>>}, e \in {<<>>, <<97, 64, 98>>}}

\* The [user] section of the config file is edited between two commands.
ConfigWrite(section) ==
  /\ section # config
  /\ config' = section
  /\ UNCHANGED <<storeVars, codec, indexVars, builds, refs, commits, lastCommit, serviceVars>>

\* One call of CommitService.execute, from the first check to updateHead.
CommitExecute(message, fault) ==
  /\ running
  /\ lastCommit.n < MaxCommits
  /\ \E done \in {execute(message, Index_getAllEntries(index), config, now,
                          [dirs |-> dirs, fsys |-> fsys, inodes |-> inodes],
                          refs, fault)} :
       /\ dirs' = done.fs.dirs /\ fsys' = done.fs.fsys /\ inodes' = done.fs.inodes
       /\ refs' = done.files
       /\ commits' = IF done.ok THEN Append(commits, done.sha) ELSE commits
       /\ lastCommit' = [n |-> lastCommit.n + 1, message |-> message,
                         entries |-> index, ok |-> done.ok, err |-> done.err,
                         sha |-> done.sha]
  /\ UNCHANGED <<now, calls, lastRead, damaged, codec, indexVars, builds, config,
               serviceVars>>

NextCommit ==
  \/ IndexRead
  \/ \E input \in CommitInputs : IndexAdd(input[1], input[2], input[3])
  \/ \E section \in ConfigSections : ConfigWrite(section)
  \/ \E message \in CommitMessages, fault \in CommitFaults : CommitExecute(message, fault)

SpecCommit == Init /\ [][NextCommit]_vars

\* A call of execute has just ended.
CommitReturned == lastCommit'.n = lastCommit.n + 1

\* C12: when execute fails at a step before the head update (the checks, the
\* tree build, the user configuration, the write of the commit object), every
\* reference file is as it was and HEAD resolves to what it resolved to;
\* objects written during the attempt may remain.
C12_FailedCommitKeepsHead ==
  [][(CommitReturned /\ ~lastCommit'.ok /\ lastCommit'.err # "IO_ERROR")
       => /\ refs' = refs
          /\ resolveHead(refs') = resolveHead(refs)
          /\ commits' = commits
          /\ \A p \in DOMAIN fsys : p \in DOMAIN fsys' /\ inodes'[fsys'[p]] = inodes[fsys[p]]]_vars

\* the write of the commit object failed after the trees of a second
\* snapshot were written, and HEAD still resolves to the first commit
C12_Witness ==
  /\ lastCommit.n > 1 /\ ~lastCommit.ok /\ lastCommit.err = "CommitWriteFailed"
  /\ Len(commits) = 1 /\ resolveHead(refs) = RefOk(commits[1])
  /\ Len(lastCommit.entries) = 2

\* C13: a call with an empty or white-space message, or with nothing staged,
\* fails and leaves the object store, the reference files and the index file
\* as they were.
C13_RejectedBeforeAnyWrite ==
  [][(CommitReturned
        /\ (Trim(lastCommit'.message) = <<>> \/ Len(lastCommit'.entries) = 0))
       => /\ ~lastCommit'.ok
          /\ lastCommit'.err \in {"EmptyMessage", "NoStagedFiles"}
          /\ UNCHANGED <<dirs, fsys, inodes, refs, indexFile, commits>>]_vars

\* a white-space message was refused although files were staged and a user
\* was configured
C13_Witness ==
  /\ lastCommit.n > 0 /\ lastCommit.message = <<SP, LF>>
  /\ ~lastCommit.ok /\ lastCommit.err = "EmptyMessage"
  /\ Len(lastCommit.entries) > 0
  /\ getUserConfig(config, now) # <<>>
  /\ fsys = <<>>

\* The Commit object stored under sha, as read back from the object store.
StoredCommit(sha) ==
  GitObject_deserialize(inflate(FileContent(getObjectPath(sha))).obj)

\* C14: as long as every execute call has succeeded, HEAD resolves to the
\* hash the latest call returned, the first commit has no parent and every
\* later commit has exactly one parent, the hash the call before it returned.
C14_CommitChain ==
  (Len(commits) > 0 /\ lastCommit.n = Len(commits))
  => /\ resolveHead(refs) = RefOk(commits[Len(commits)])
     /\ \A i \in 1..Len(commits) :
          /\ FileExists(getObjectPath(commits[i]))
          /\ StoredCommit(commits[i]).ok
          /\ StoredCommit(commits[i]).obj.type = "commit"
          /\ StoredCommit(commits[i]).obj.parents
               = IF i = 1 THEN <<>> ELSE <<commits[i - 1]>>

\* three calls in a row succeeded
C14_Witness ==
  /\ Len(commits) = 3 /\ lastCommit.n = 3
  /\ commits[1] # commits[2] /\ commits[2] # commits[3]


\* The parents of the commit the call that just ended returned.
ReturnedParents ==
  GitObject_deserialize(
    inflate(inodes'[fsys'[getObjectPath(lastCommit'.sha)]]).obj).obj.parents

\* The head did not resolve although the branch is not one without commits.
HeadUnresolvable == ~resolveHead(refs).ok /\ resolveHead(refs).err # "REF_NOT_FOUND"

\* C28: a successful commit records the commit the head designated as its
\* parent; when the head cannot be resolved for another reason than a branch
\* without commits, the call fails and the references are as they were.
C28_HistoryNeverDiscarded ==
  [][CommitReturned
       => /\ (resolveHead(refs).ok /\ lastCommit'.ok)
               => ReturnedParents = <<resolveHead(refs).sha>>
          /\ HeadUnresolvable => (~lastCommit'.ok /\ refs' = refs)]_vars

\* The first part of C28: the commit the head designates becomes the parent.
C28_HeadCommitIsParent ==
  [][(CommitReturned /\ resolveHead(refs).ok /\ lastCommit'.ok)
       => ReturnedParents = <<resolveHead(refs).sha>>]_vars

\* The object held by the file of the store at a path.
ObjectAt(path) == GitObject_deserialize(inflate(FileContent(path)).obj).obj

Present(sha) == IsValidSha(sha) /\ FileExists(getObjectPath(sha))

\* The hashes a stored object names that the commit command writes itself:
\* the subdirectory entries of a tree, the tree field of a commit.
NamedBy(o) ==
  IF o.type = "tree"
    THEN {o.entries[i].sha : i \in {k \in 1..Len(o.entries) : o.entries[k].mode = STR_040000}}
  ELSE IF o.type = "commit" THEN {o.tree}
  ELSE {}

\* C26: whenever the commit command stops, every subdirectory entry of a
\* stored tree, the tree field of every stored commit and the head
\* reference name objects that are in the store.
C26_ChildrenBeforeParents ==
  /\ \A path \in DOMAIN fsys : \A sha \in NamedBy(ObjectAt(path)) : Present(sha)
  /\ resolveHead(refs).ok => Present(resolveHead(refs).sha)

\* The head names a commit whose root tree has a subdirectory, and a later
\* call was stopped while it wrote its trees.
C26_Witness ==
  /\ resolveHead(refs).ok
  /\ \E i \in 1..Len(StoredTree(StoredCommit(resolveHead(refs).sha).obj.tree)) :
        StoredTree(StoredCommit(resolveHead(refs).sha).obj.tree)[i].mode = STR_040000
  /\ lastCommit.err = "TreeWriteFailed"
  /\ lastCommit.entries # <<>>

----------------------------------------------------------------------------
(* The log command (class LogService)                                       *)

\* What objectRepo.read(sha) answers: a commit with its parents, an object
\* that is no commit, or an error.
ReadError == [kind |-> "error", parents |-> <<>>]

\* The answer of the repository for a hash; read() looks the object up
\* under the hash in lower case.
Answer(objectRepo, sha) ==
  IF ToLowerCase(sha) \in DOMAIN objectRepo THEN objectRepo[ToLowerCase(sha)]
  ELSE ReadError

\* The parents of a commit that were not visited when it was read.
Unvisited(parents, visited) == SelectSeq(parents, LAMBDA p : p \notin visited)

\* An iteration that does not look at the visited set.
collectStep_NoVisited(w, currentSha, answer) ==
  IF answer.kind # "commit"
    THEN [w EXCEPT !.queue = Tail(w.queue), !.visited = @ \cup {currentSha},
                   !.reads = Append(@, currentSha)]
    ELSE [w EXCEPT !.queue = Tail(w.queue) \o answer.parents,
                   !.visited = @ \cup {currentSha},
                   !.reads = Append(@, currentSha),
                   !.history = Append(@, currentSha)]

\* One iteration of the loop of collectCommitHistory for the hash taken
\* from the queue and the answer of read(), which is only asked for when the
\* hash was not visited.
collectStep(w, currentSha, answer) ==
  IF currentSha \in w.visited THEN [w EXCEPT !.queue = Tail(w.queue)]
  ELSE IF answer.kind # "commit"
    THEN [w EXCEPT !.queue = Tail(w.queue), !.visited = @ \cup {currentSha},
                   !.reads = Append(@, currentSha)]
    ELSE [w EXCEPT !.queue = Tail(w.queue)
                               \o Unvisited(answer.parents, w.visited \cup {currentSha}),
                   !.visited = @ \cup {currentSha},
                   !.reads = Append(@, currentSha),
                   !.history = Append(@, currentSha)]

\* The loop of collectCommitHistory: it ends when the queue is empty, or
\* when the hash taken from it is the empty string.
collectNext(w) ==
  IF w.queue = <<>> \/ Head(w.queue) = <<>> THEN [w EXCEPT !.pc = "done", !.ok = TRUE]
  ELSE collectStep(w, Head(w.queue), Answer(w.objectRepo, Head(w.queue)))

RECURSIVE collectCommitHistory(_)
collectCommitHistory(w) ==
  IF w.pc = "done" THEN w ELSE collectCommitHistory(collectNext(w))

\* LogService.execute up to the loop: a head that does not resolve ends the
\* command with an error, an empty one prints "No commits found.".
LogStarted(objectRepo, head) ==
  IF ~head.ok
    THEN [NoLog EXCEPT !.pc = "done", !.err = head.err, !.head = head,
                       !.objectRepo = objectRepo]
  ELSE IF head.sha = <<>>
    THEN [NoLog EXCEPT !.pc = "done", !.ok = TRUE, !.none = TRUE, !.head = head,
                       !.objectRepo = objectRepo]
  ELSE [NoLog EXCEPT !.pc = "walk", !.head = head, !.objectRepo = objectRepo,
                     !.queue = <<head.sha>>]

\* LogService.execute
LogService_execute(objectRepo, head) == collectCommitHistory(LogStarted(objectRepo, head))

\* The answer of ObjectRepository.read for a hash under which the store
\* holds a file.
StoreAnswer(sha) ==
  LET r == ReadOutcome(1, sha)
  IN  IF ~r.ok THEN ReadError
      ELSE LET o == GitObject_deserialize(r.data).obj
           IN  IF o.type = "commit" THEN [kind |-> "commit", parents |-> o.parents]
               ELSE [kind |-> "other", parents |-> <<>>]

StoredShas == {q.dir \o q.name : q \in DOMAIN fsys}

\* The ObjectRepository of the git directory, as the log command finds it.
StoreRepo == [sha \in StoredShas |-> StoreAnswer(sha)]

MaxHistory == 3

LogMessages == {<<109>>, <<110>>}

\* The parents of a new commit: none, one commit, or two different ones.
ParentChoices ==
  LET known == {commits[i] : i \in 1..Len(commits)}
  IN  {<<>>} \cup {<<a>> : a \in known}
        \cup {ps \in {<<a, b>> : a, b \in known} : ps[1] # ps[2]}

\* git records a commit with the given parents (a merge when there are two)
\* and moves the branch main to it.
GitCommit(parents, message) ==
  /\ Len(commits) < MaxHistory
  /\ \E c \in {Commit(HashA, parents, ActorA, ActorA, message)} :
       \E sha \in {getSha(c, 0)} :
         /\ \A i \in 1..Len(commits) : commits[i] # sha
         /\ \E fs \in {WriteAll([dirs |-> dirs, fsys |-> fsys, inodes |-> inodes],
                                 <<c>>, 1)} :
               dirs' = fs.dirs /\ fsys' = fs.fsys /\ inodes' = fs.inodes
         /\ commits' = Append(commits, sha)
         /\ refs' = [q \in DOMAIN refs \cup {STR_refsHeads \o STR_main} |->
                       IF q = STR_refsHeads \o STR_main THEN sha \o <<LF>> ELSE refs[q]]
  /\ UNCHANGED <<now, calls, lastRead, damaged, codec, indexVars, builds, config,
                 lastCommit, work, lastAdd, lastLog>>

\* One invocation of `log` (logCommand): the repositories are made for the
\* git directory and LogService.execute runs to its end.
LogExecute ==
  /\ \E done \in {LogService_execute(StoreRepo, resolveHead(refs))} :
       /\ done # lastLog
       /\ lastLog' = done
  /\ UNCHANGED <<storeVars, codec, indexVars, builds, commitVars, work, lastAdd>>

NextLog ==
  \/ \E parents \in ParentChoices, message \in LogMessages : GitCommit(parents, message)
  \/ LogExecute

SpecLog == Init /\ [][NextLog]_vars

\* The parents of a listed commit, as the log read them.
ParentsOf(sha) == Answer(lastLog.objectRepo, sha).parents

LogListed == lastLog.pc = "done" /\ lastLog.ok /\ ~lastLog.none

\* C24: the log starts with the commit HEAD resolves to and lists every
\* commit before each of its parents.
C24_CommitsBeforeParents ==
  LogListed =>
    /\ lastLog.history # <<>> /\ lastLog.history[1] = lastLog.head.sha
    /\ \A i, j \in 1..Len(lastLog.history) :
         (\E k \in 1..Len(ParentsOf(lastLog.history[i])) :
             ParentsOf(lastLog.history[i])[k] = lastLog.history[j]) => i < j

\* The part of C24 about the first commit listed.
C24_StartsWithHead ==
  LogListed => lastLog.history # <<>> /\ lastLog.history[1] = lastLog.head.sha

\* C25: in a repository without commits (HEAD names a branch that has no
\* reference file) the log prints "No commits found." and succeeds.
C25_NoCommitsIsNotAnError ==
  lastLog.pc = "done" /\ lastLog.head.err = "REF_NOT_FOUND"
    => lastLog.ok /\ lastLog.none

\* Hashes of the repositories walked below: "a", "b", "c".
WalkNames == {<<97>>, <<98>>, <<99>>}

\* The parents a commit names: none, one, or two (a merge); a commit may
\* name itself or one of its descendants, and the same parent twice.
WalkParents ==
  {<<>>} \cup {<<p>> : p \in WalkNames} \cup {<<p, q>> : p, q \in WalkNames}

WalkAnswers ==
  {ReadError, [kind |-> "other", parents |-> <<>>]}
    \cup {[kind |-> "commit", parents |-> ps] : ps \in WalkParents}

\* What HEAD resolves to: one of the hashes, a hash the repository does not
\* hold, or an error.
WalkHeads ==
  {RefOk(h) : h \in WalkNames \cup {<<100>>}} \cup {RefFail("INVALID_HEAD")}

\* A log command starts on any repository and any head.
WalkInit ==
  /\ StoreInit /\ codec = CodecIdle /\ IndexInit /\ builds = <<>>
  /\ refs = [p \in {STR_HEAD} |-> STR_refPrefix \o STR_refsHeads \o STR_main \o <<LF>>]
  /\ config = [name |-> <<>>, email |-> <<>>]
  /\ commits = <<>>
  /\ lastCommit = NoCommit
  /\ work = <<>>
  /\ lastAdd = NoAdd
  /\ lastLog \in {LogStarted(objectRepo, head) :
                    objectRepo \in [WalkNames -> WalkAnswers], head \in WalkHeads}

\* One iteration of the loop of collectCommitHistory, or its end.
LogStep ==
  /\ lastLog.pc = "walk"
  /\ lastLog' = collectNext(lastLog)
  /\ UNCHANGED <<storeVars, codec, indexVars, builds, commitVars, work, lastAdd>>

NextWalk == LogStep

\* The loop goes on as long as it can: the event loop runs every pending
\* iteration.
SpecWalk == WalkInit /\ [][NextWalk]_vars /\ WF_vars(NextWalk)

NoRepeat(seq) == \A i, j \in 1..Len(seq) : i # j => seq[i] # seq[j]

\* C30: the collection of the history ends on every repository and head,
\* and no hash is read twice or listed twice, whatever the parent links.
C30_WalkEndsWithoutRepeats ==
  /\ <>(lastLog.pc = "done")
  /\ [](NoRepeat(lastLog.reads) /\ NoRepeat(lastLog.history))

\* A walk has ended on a repository whose three commits form a cycle, one of
\* them a merge, and each of them is listed.
C30_Witness ==
  /\ lastLog.pc = "done" /\ lastLog.ok
  /\ Len(lastLog.history) = 3
  /\ \E i \in 1..3 : Len(ParentsOf(lastLog.history[i])) = 2
  /\ \E k \in 1..Len(ParentsOf(lastLog.history[3])) :
        ParentsOf(lastLog.history[3])[k] = lastLog.history[1]

============================================================================
